---- MODULE Spec2Model ----
(***************************************************************************)
(* Stat derivation engine of the status tracker                            *)
(* (client/src/utils/statCalculator.js) together with the handlers that    *)
(* edit a Character Record and capture level snapshots                     *)
(* (client/src/tabs/Companion.js, client/src/tabs/Titles.js,               *)
(* client/src/context/CharacterContext.js).  The main character and the    *)
(* companion are records of one shape resolved by the same engine.  The    *)
(* handlers of either tab edit the record companion; main is the bonded    *)
(* partner, whose maximum MP borrows from the companion's mana.            *)
(*                                                                         *)
(* Numbers.  The engine computes with JavaScript doubles.  The model keeps *)
(* every quantity an integer:                                              *)
(*   - additive quantities, levels and trait multipliers are integers;     *)
(*   - a multiplier RATE (title.bonuses[i].multiplier, boost.multiplier)   *)
(*     is held in hundredths: 50 stands for the JavaScript number 0.5;     *)
(*   - a derivation percent is the integer the source stores.              *)
(* Rates are drawn from multiples of 25, for which the double x * (1 + r)  *)
(* is exact, so that Math.round of the double agrees with Round100 below.  *)
(* The double product of a derivation, x * (p / 100), is not always exact; *)
(* DerivationBonus gives the value Math.floor returns for it.              *)
(***************************************************************************)
EXTENDS Integers, Sequences, FiniteSets, TLC

VARIABLES
    companion,     \* the Character Record held by CharacterProvider
    included,      \* per snapshot level: the bonus amounts folded into its stats
    captures,      \* number of snapshots captured so far
    main,          \* the Character Record of the bonded partner
    hasBond,       \* bond.enabled of the configuration in use
    calculations,  \* what calculateAllStats returned, call by call, since the
                   \* record was last written
    isDirty,       \* the provider's isDirty flag
    saveTimeout,   \* saveTimeoutRef: <<>>, or <<payload>> of the pending timer
    requests,      \* HTTP requests sent and not yet taken up by the server
    responses,     \* answers sent and not yet received by the client
    currentFile,   \* data/current.json
    snapshotsFile, \* data/snapshots.json: its list snapshots, newest first
    reads,         \* handlers of the server between readJson and writeJson
    nextId,        \* number of ids uuidv4 has issued
    answered       \* the answers 200 of the server to a save, an import or a
                   \* deletion

\* what the server and the requests under way hold
server == <<requests, responses, currentFile, snapshotsFile, reads, nextId,
            answered>>

vars == <<companion, included, captures, main, hasBond, calculations,
          isDirty, saveTimeout, server>>

(***************************************************************************)
(* Constants of the program.                                               *)
(***************************************************************************)
ALL_STATS == <<"strength", "agility", "constitution", "vitality",
               "intellect", "willpower", "mana", "wisdom">>

StatSet == {ALL_STATS[i] : i \in 1..Len(ALL_STATS)}

\* JavaScript null for a level (no snapshot, open end level).  No handler
\* stores the level 0: each writes Number(x) || 1.
NULL == 0

freePointsPerLevel == 3

EscalationLevel == 30

HpPerConstitution == 10

MpPerMana == 10

ZeroMap == [s \in StatSet |-> 0]

\* a variant that reads a missing entry as 1
GetOrOne(map, statName) == IF statName \in DOMAIN map THEN map[statName] ELSE 1

\* the value of  map?.[statName] || 0
Get(map, statName) ==
    IF statName \in DOMAIN map THEN map[statName] ELSE 0

\* a field of a record that may lack it: what the guards  !x,  x?.y  and
\* x || default  of the calculator read when the field is undefined
Field(record, name, default) ==
    IF name \in DOMAIN record THEN record[name] ELSE default

Max(a, b) == IF a >= b THEN a ELSE b
Min(a, b) == IF a <= b THEN a ELSE b

\* Math.round(x / 100) for an integer x: halves round towards +infinity
Round100(x) == (x + 50) \div 100

\* Math.floor(x / 100) for an integer x
Floor100(x) == x \div 100

\* Math.round(x / 2) for an integer x
RoundHalf(x) == (x + 1) \div 2

(***************************************************************************)
(* Snapshots.  A snapshot is an object with optional fields; an absent     *)
(* field is read through  ?.[stat] || default , which gives the same value *)
(* as a field holding 0 for every stat, so absent fields are ZeroMap.      *)
(* format records the shape that was written:                              *)
(*   "none"   no snapshot (null)                                           *)
(*   "direct" {stat: value}, written by SnapshotDialog/handleSaveSnapshot  *)
(*   "full"   written by handleTakeSnapshot of the companion tab           *)
(***************************************************************************)
NoSnapshot ==
    [format |-> "none", stats |-> ZeroMap,
     rawTitleBonuses |-> ZeroMap, includedTraitMultipliers |-> ZeroMap,
     includedTitleBonuses |-> ZeroMap, includedTitleMultipliers |-> ZeroMap,
     includedStatBoostBonuses |-> ZeroMap, includedStatBoostMultipliers |-> ZeroMap,
     includedDerivationBonuses |-> ZeroMap]

\* "legacy": {stats, includedTitleBonuses} without rawTitleBonuses and
\* includedTraitMultipliers, as stored before the raw title bonuses were kept
LegacySnapshot(stats, includedTitleBonuses) ==
    [NoSnapshot EXCEPT !.format = "legacy", !.stats = stats,
                       !.includedTitleBonuses = includedTitleBonuses]

DirectSnapshot(stats) == [NoSnapshot EXCEPT !.format = "direct", !.stats = stats]

\* a variant that takes the greatest level of all, whatever the current level
getMostRecentSnapshotLevelOfAll(levelSnapshots, currentLevel) ==
    LET levels == DOMAIN levelSnapshots
    IN  IF levels = {} THEN NULL
        ELSE CHOOSE lvl \in levels : \A other \in levels : other <= lvl

getMostRecentSnapshotLevel(levelSnapshots, currentLevel) ==
    LET levels == {lvl \in DOMAIN levelSnapshots : lvl <= currentLevel}
    IN  IF levels = {} THEN NULL
        ELSE CHOOSE lvl \in levels : \A other \in levels : other <= lvl

getSnapshotStatValue(snapshot, statName) ==
    IF snapshot.format = "none" THEN 0 ELSE Get(snapshot.stats, statName)

getSnapshotIncludedTitleBonuses(snapshot, statName) ==
    IF snapshot.format = "none"
    THEN [additive |-> 0, multiplier |-> 0, rawAdditive |-> 0, traitMultiplier |-> 1]
    ELSE LET rawAdditive == Get(snapshot.rawTitleBonuses, statName)
             stored      == Get(snapshot.includedTraitMultipliers, statName)
             traitMult   == IF stored # 0 THEN stored ELSE 1
             old         == Get(snapshot.includedTitleBonuses, statName)
         IN  [additive        |-> IF old # 0 THEN old ELSE rawAdditive * traitMult,
              multiplier      |-> Get(snapshot.includedTitleMultipliers, statName),
              rawAdditive     |-> rawAdditive,
              traitMultiplier |-> traitMult]

getSnapshotIncludedDerivation(snapshot, statName) ==
    IF snapshot.format = "none" THEN 0
    ELSE Get(snapshot.includedDerivationBonuses, statName)

getSnapshotIncludedStatBoosts(snapshot, statName) ==
    IF snapshot.format = "none" THEN [additive |-> 0, multiplier |-> 0]
    ELSE [additive   |-> Get(snapshot.includedStatBoostBonuses, statName),
          multiplier |-> Get(snapshot.includedStatBoostMultipliers, statName)]

(***************************************************************************)
(* Traits.  character.traits.items is a list of traits, each a list of     *)
(* effects.  An effect is an object tagged by type; the fields its type    *)
(* does not use are "" / 0 (undefined in the source).                      *)
(***************************************************************************)
NoStat == ""

StatMultiplier(stat, multiplier) ==
    [type |-> "stat_multiplier", stat |-> stat, multiplier |-> multiplier,
     toStat |-> NoStat, sourceStat |-> NoStat, targetStat |-> NoStat, percent |-> 0]

RedirectFreePoints(toStat) ==
    [type |-> "redirect_free_points", stat |-> NoStat, multiplier |-> 0,
     toStat |-> toStat, sourceStat |-> NoStat, targetStat |-> NoStat, percent |-> 0]

StatDerivation(sourceStat, targetStat, percent) ==
    [type |-> "stat_derivation", stat |-> NoStat, multiplier |-> 0,
     toStat |-> NoStat, sourceStat |-> sourceStat, targetStat |-> targetStat,
     percent |-> percent]

Trait(effects) == [effects |-> effects]

\* the effects of all traits, in the order the nested forEach visits them
RECURSIVE AllEffects(_)
AllEffects(items) ==
    IF items = <<>> THEN <<>>
    ELSE Head(items).effects \o AllEffects(Tail(items))

RECURSIVE ProductOf(_)
ProductOf(numbers) ==
    IF numbers = <<>> THEN 1 ELSE Head(numbers) * ProductOf(Tail(numbers))

RECURSIVE SumOf(_)
SumOf(numbers) ==
    IF numbers = <<>> THEN 0 ELSE Head(numbers) + SumOf(Tail(numbers))

IsMultiplierFor(effect, statName) ==
    effect.type = "stat_multiplier" /\ effect.stat = statName

getTraitMultiplier(items, statName) ==
    LET effects == SelectSeq(AllEffects(items), LAMBDA e : IsMultiplierFor(e, statName))
    IN  ProductOf([i \in 1..Len(effects) |->
                     IF effects[i].multiplier # 0 THEN effects[i].multiplier ELSE 1])

getStatDerivations(items) ==
    LET effects == SelectSeq(AllEffects(items), LAMBDA e : e.type = "stat_derivation")
    IN  [i \in 1..Len(effects) |->
           [sourceStat |-> effects[i].sourceStat,
            targetStat |-> effects[i].targetStat,
            percent    |-> effects[i].percent]]

\* effects.find(e => e.type === 'redirect_free_points'): index of the first
\* redirect effect of a trait, 0 if it has none
FindRedirect(effects) ==
    LET at == {i \in 1..Len(effects) : effects[i].type = "redirect_free_points"}
    IN  IF at = {} THEN 0 ELSE CHOOSE i \in at : \A j \in at : i <= j

\* a variant that counts the level-ups from level 1 whatever fromLevel is
getRedirectedFreePointsFromOne(items, level, fromLevel) ==
    LET hits == {t \in 1..Len(items) :
                   /\ FindRedirect(items[t].effects) # 0
                   /\ items[t].effects[FindRedirect(items[t].effects)].toStat # NoStat}
    IN  IF hits = {} THEN [targetStat |-> NoStat, points |-> 0]
        ELSE LET t        == CHOOSE i \in hits : \A j \in hits : i <= j
                 redirect == items[t].effects[FindRedirect(items[t].effects)]
             IN  [targetStat |-> redirect.toStat,
                  points     |-> freePointsPerLevel * Max(0, level - 1)]

getRedirectedFreePoints(items, level, fromLevel) ==
    LET hits == {t \in 1..Len(items) :
                   /\ FindRedirect(items[t].effects) # 0
                   /\ items[t].effects[FindRedirect(items[t].effects)].toStat # NoStat}
    IN  IF hits = {} THEN [targetStat |-> NoStat, points |-> 0]
        ELSE LET t        == CHOOSE i \in hits : \A j \in hits : i <= j
                 redirect == items[t].effects[FindRedirect(items[t].effects)]
                 levelUps == Max(0, level - fromLevel)
             IN  [targetStat |-> redirect.toStat,
                  points     |-> freePointsPerLevel * levelUps]

(***************************************************************************)
(* Titles and stat boosts.  enabled is "undefined", "true" or "false".     *)
(***************************************************************************)
Bonus(stat, additive, multiplier) ==
    [additive |-> additive, multiplier |-> multiplier, stat |-> stat, value |-> 0]

Title(enabled, bonuses) == [enabled |-> enabled, bonuses |-> bonuses]

Boost(stat, additive, multiplier, enabled) ==
    [additive |-> additive, multiplier |-> multiplier, stat |-> stat, enabled |-> enabled]

\* a variant that keeps only the titles whose flag is true
RECURSIVE EnabledBonusesFlagged(_)
EnabledBonusesFlagged(titles) ==
    IF titles = <<>> THEN <<>>
    ELSE (IF Head(titles).enabled = "true" THEN Head(titles).bonuses ELSE <<>>)
         \o EnabledBonusesFlagged(Tail(titles))

\* the bonuses of all titles that are not disabled
RECURSIVE EnabledBonuses(_)
EnabledBonuses(titles) ==
    IF titles = <<>> THEN <<>>
    ELSE (IF Head(titles).enabled = "false" THEN <<>> ELSE Head(titles).bonuses)
         \o EnabledBonuses(Tail(titles))

getTitleAdditiveBonuses(titles) ==
    [stat \in StatSet |->
       LET bs == SelectSeq(EnabledBonuses(titles), LAMBDA b : b.stat = stat)
       IN  SumOf([i \in 1..Len(bs) |->
                    IF bs[i].additive # 0 THEN bs[i].additive ELSE bs[i].value])]

getTitleMultiplierBonuses(titles) ==
    [stat \in StatSet |->
       LET bs == SelectSeq(EnabledBonuses(titles), LAMBDA b : b.stat = stat)
       IN  SumOf([i \in 1..Len(bs) |-> bs[i].multiplier])]

getStatBoostAdditiveBonuses(statBoosts) ==
    [stat \in StatSet |->
       LET bs == SelectSeq(statBoosts, LAMBDA b : b.enabled # "false" /\ b.stat = stat)
       IN  SumOf([i \in 1..Len(bs) |-> bs[i].additive])]

getStatBoostMultiplierBonuses(statBoosts) ==
    [stat \in StatSet |->
       LET bs == SelectSeq(statBoosts, LAMBDA b : b.enabled # "false" /\ b.stat = stat)
       IN  SumOf([i \in 1..Len(bs) |-> bs[i].multiplier])]

(***************************************************************************)
(* Growth.  A class (evolution) is {startLevel, endLevel | null,           *)
(* statsPerLevel}; endLevel NULL is the open, current class.               *)
(***************************************************************************)
Class(startLevel, endLevel, statsPerLevel) ==
    [startLevel |-> startLevel, endLevel |-> endLevel, statsPerLevel |-> statsPerLevel]

\* a variant that also counts the level on which the class is received
ClassContributionFromStart(cls, statName, snapshotLevel, level) ==
    LET classStart     == IF cls.startLevel # 0 THEN cls.startLevel ELSE 1
        perLevel       == Get(cls.statsPerLevel, statName)
        effectiveStart == Max(snapshotLevel + 1, classStart)
        effectiveEnd   == IF cls.endLevel = NULL THEN level
                          ELSE Min(level, cls.endLevel)
    IN  IF effectiveStart <= effectiveEnd /\ perLevel > 0
        THEN perLevel * (effectiveEnd - effectiveStart + 1)
        ELSE 0

\* one class's term of the loop of calculateClassScaling
ClassContribution(cls, statName, snapshotLevel, level) ==
    LET classStart     == IF cls.startLevel # 0 THEN cls.startLevel ELSE 1
        perLevel       == Get(cls.statsPerLevel, statName)
        rangeStart     == snapshotLevel + 1
        rangeEnd       == level
        effectiveStart == Max(rangeStart, classStart + 1)
        \* classEnd is Infinity for endLevel null
        effectiveEnd   == IF cls.endLevel = NULL THEN rangeEnd
                          ELSE Min(rangeEnd, cls.endLevel)
    IN  IF effectiveStart <= effectiveEnd /\ perLevel > 0
        THEN perLevel * (effectiveEnd - effectiveStart + 1)
        ELSE 0

calculateClassScaling(character, statName, snapshotLevel) ==
    IF Field(character, "classHistory", <<>>) = <<>> \/ snapshotLevel = NULL THEN 0
    ELSE SumOf([i \in 1..Len(Field(character, "classHistory", <<>>)) |->
                  ClassContribution(Field(character, "classHistory", <<>>)[i], statName,
                                    snapshotLevel, character.level)])

(***************************************************************************)
(* The delta composer: one stat, first pass.                               *)
(***************************************************************************)
\* a variant that takes the raw title bonuses of the snapshot in every case
NetTitleAdditiveFromRaw(currentRaw, traitMultiplier, snapshotRaw, snapshotTrait, snapshotIncluded) ==
    IF currentRaw = snapshotRaw
    THEN 0
    ELSE currentRaw * traitMultiplier - snapshotRaw * snapshotTrait

\* step 9 of calculateStatWithBreakdown: the net title additive
NetTitleAdditive(currentRaw, traitMultiplier, snapshotRaw, snapshotTrait, snapshotIncluded) ==
    IF snapshotRaw > 0 \/ snapshotTrait # 1
    THEN IF currentRaw = snapshotRaw
         THEN 0
         ELSE currentRaw * traitMultiplier - snapshotRaw * snapshotTrait
    ELSE currentRaw * traitMultiplier - snapshotIncluded

\* a variant that counts the manual free points whatever the redirect is
ManualFreePointsAlways(character, statName, redirected) ==
    Get(Field(character, "freePoints", <<>>), statName)

\* step 4: the manual free points counted for statName
ManualFreePoints(character, statName, redirected) ==
    IF redirected.targetStat = NoStat \/ redirected.targetStat = statName
    THEN Get(Field(character, "freePoints", <<>>), statName)
    ELSE 0

\* a variant that applies the level-30 rule at every level
EffectiveTitleMultiplierAnyLevel(level, traitMultiplier, netTitleMultiplier) ==
    IF traitMultiplier > 1 /\ netTitleMultiplier > 0
    THEN netTitleMultiplier * traitMultiplier
    ELSE netTitleMultiplier

\* step 11: the net title rate after the level-30 rule
EffectiveTitleMultiplier(level, traitMultiplier, netTitleMultiplier) ==
    IF level >= EscalationLevel /\ traitMultiplier > 1 /\ netTitleMultiplier > 0
    THEN netTitleMultiplier * traitMultiplier
    ELSE netTitleMultiplier

\* a variant that applies a net rate of either sign
FinalValueAnyRate(preFinalValue, totalNetMultiplier) ==
    Round100(preFinalValue * (100 + totalNetMultiplier))

\* step 12: Math.round(preFinalValue * (1 + rate)) for a positive net rate
FinalValue(preFinalValue, totalNetMultiplier) ==
    IF totalNetMultiplier > 0
    THEN Round100(preFinalValue * (100 + totalNetMultiplier))
    ELSE preFinalValue

\* a variant in which the trait multiplier scales everything but the titles
PreFinalValueAllScaled(snapshotBase, gains, traitMultiplier, netTitle, netBoost) ==
    (snapshotBase + gains + netBoost) * traitMultiplier + netTitle

\* steps 6 and 10: base + gains x trait + net title and boost additives
PreFinalValue(snapshotBase, gains, traitMultiplier, netTitle, netBoost) ==
    snapshotBase + gains * traitMultiplier + netTitle + netBoost

calculateStatWithBreakdown(statName, character) ==
    LET snapshotLevel == getMostRecentSnapshotLevel(Field(character, "levelSnapshots", <<>>),
                                                    character.level)
        snapshot == IF snapshotLevel # NULL
                    THEN Field(character, "levelSnapshots", <<>>)[snapshotLevel]
                    ELSE NoSnapshot
        includedTitles == getSnapshotIncludedTitleBonuses(snapshot, statName)
        includedBoosts == getSnapshotIncludedStatBoosts(snapshot, statName)
        redirected == getRedirectedFreePoints(
                          Field(character, "traits", <<>>), character.level,
                          IF snapshotLevel # NULL THEN snapshotLevel ELSE 1)
        redirectedFreePoints ==
            IF redirected.targetStat = statName THEN redirected.points ELSE 0
        classScaling == calculateClassScaling(character, statName, snapshotLevel)
        freePoints == ManualFreePoints(character, statName, redirected)
        gainsBeforeTrait == redirectedFreePoints + classScaling + freePoints
        traitMultiplier == getTraitMultiplier(Field(character, "traits", <<>>), statName)
        gainsAfterTrait == gainsBeforeTrait * traitMultiplier
        titleAdditive == getTitleAdditiveBonuses(Field(character, "titles", <<>>))[statName]
        statBoostAdditive == getStatBoostAdditiveBonuses(Field(character, "statBoosts", <<>>))[statName]
        statBoostMultiplier ==
            getStatBoostMultiplierBonuses(Field(character, "statBoosts", <<>>))[statName]
        netTitleAdditive ==
            NetTitleAdditive(titleAdditive, traitMultiplier,
                             includedTitles.rawAdditive, includedTitles.traitMultiplier,
                             includedTitles.additive)
        netBoostAdditive == statBoostAdditive - includedBoosts.additive
        preFinalValue == PreFinalValue(getSnapshotStatValue(snapshot, statName),
                                       gainsBeforeTrait, traitMultiplier,
                                       netTitleAdditive, netBoostAdditive)
        titleMultiplier == getTitleMultiplierBonuses(Field(character, "titles", <<>>))[statName]
        netTitleMultiplier ==
            EffectiveTitleMultiplier(character.level, traitMultiplier,
                                     titleMultiplier - includedTitles.multiplier)
        netBoostMultiplier == statBoostMultiplier - includedBoosts.multiplier
        totalNetMultiplier == netTitleMultiplier + netBoostMultiplier
        final == FinalValue(preFinalValue, totalNetMultiplier)
    IN  [snapshotBase                    |-> getSnapshotStatValue(snapshot, statName),
         snapshotLevel                   |-> snapshotLevel,
         snapshotIncludedTitleAdditive   |-> includedTitles.additive,
         snapshotIncludedTitleMultiplier |-> includedTitles.multiplier,
         snapshotIncludedBoostAdditive   |-> includedBoosts.additive,
         snapshotIncludedBoostMultiplier |-> includedBoosts.multiplier,
         snapshotRawTitleAdditive        |-> includedTitles.rawAdditive,
         snapshotTraitMultiplier         |-> includedTitles.traitMultiplier,
         redirectedFreePoints            |-> redirectedFreePoints,
         classScaling                    |-> classScaling,
         freePoints                      |-> freePoints,
         traitMultiplier                 |-> traitMultiplier,
         gainsBeforeTrait                |-> gainsBeforeTrait,
         gainsAfterTrait                 |-> gainsAfterTrait,
         titleAdditive                   |-> titleAdditive,
         titleAdditiveAfterTrait         |-> titleAdditive * traitMultiplier,
         titleMultiplier                 |-> titleMultiplier,
         effectiveTitleMultiplier        |-> netTitleMultiplier,
         statBoostAdditive               |-> statBoostAdditive,
         statBoostMultiplier             |-> statBoostMultiplier,
         netTitleAdditive                |-> netTitleAdditive,
         netBoostAdditive                |-> netBoostAdditive,
         preFinalValue                   |-> preFinalValue,
         derivationBonus                 |-> 0,
         netDerivation                   |-> 0,
         final                           |-> final]

(***************************************************************************)
(* The derivation resolver: second pass of calculateAllStats.              *)
(***************************************************************************)
\* The pairs <<value, percent>>, with |value| <= 300 and percent one of 25,
\* 29, 50, for which the double value * (percent / 100) lies just below the
\* integer value * percent / 100: 29 / 100 is the double
\* 0.28999999999999998, and 100 * 0.28999999999999998 rounds to
\* 28.999999999999996.
RoundsBelow == {<<100, 29>>, <<200, 29>>}

\* Math.floor(stats[sourceStat] * (percent / 100))
DerivationBonus(value, percent) ==
    IF <<value, percent>> \in RoundsBelow
    THEN Floor100(value * percent) - 1
    ELSE Floor100(value * percent)

\* one iteration of either forEach: acc is [stats, breakdowns]; the loop over
\* the trait rules overwrites derivationBonus / netDerivation of the target,
\* the loop over character.statDerivations adds to them
ApplyDerivation(acc, rule, snapshot, accumulate) ==
    IF rule.sourceStat \in StatSet /\ rule.targetStat \in StatSet
    THEN LET target == rule.targetStat
             bonus == DerivationBonus(acc.stats[rule.sourceStat], rule.percent)
             snapshotDerivation == getSnapshotIncludedDerivation(snapshot, target)
             netBonus == bonus - snapshotDerivation
             newValue == acc.stats[target] + netBonus
             old == acc.breakdowns[target]
         IN  [stats |-> [acc.stats EXCEPT ![target] = newValue],
              breakdowns |->
                [acc.breakdowns EXCEPT ![target] =
                   [old EXCEPT
                      !.derivationBonus =
                          IF accumulate THEN old.derivationBonus + bonus ELSE bonus,
                      !.netDerivation =
                          IF accumulate THEN old.netDerivation + netBonus ELSE netBonus,
                      !.final = newValue]]]
    ELSE acc

RECURSIVE ApplyDerivations(_, _, _, _)
ApplyDerivations(acc, rules, snapshot, accumulate) ==
    IF rules = <<>> THEN acc
    ELSE LET applied == {ApplyDerivation(a, Head(rules), snapshot, accumulate) :
                           a \in {acc}}
         IN  ApplyDerivations(CHOOSE next \in applied : TRUE,
                              Tail(rules), snapshot, accumulate)

\* a variant whose result carries over the number of calls made before it
calculateAllStatsCounting(character) ==
    [stats      |-> [statName \in StatSet |->
                       calculateStatWithBreakdown(statName, character).final
                       + Len(calculations)],
     breakdowns |-> [statName \in StatSet |->
                       calculateStatWithBreakdown(statName, character)]]

\* a variant that applies the rules of character.statDerivations before those
\* of the traits
calculateAllStatsRecordFirst(character) ==
    LET firstPass == [statName \in StatSet |->
                        calculateStatWithBreakdown(statName, character)]
        snapshotLevel == getMostRecentSnapshotLevel(Field(character, "levelSnapshots", <<>>),
                                                    character.level)
        snapshot == IF snapshotLevel # NULL
                    THEN Field(character, "levelSnapshots", <<>>)[snapshotLevel]
                    ELSE NoSnapshot
        start == [stats      |-> [statName \in StatSet |-> firstPass[statName].final],
                  breakdowns |-> firstPass]
        afterRecord == ApplyDerivations(start, Field(character, "statDerivations", <<>>),
                                        snapshot, TRUE)
    IN  ApplyDerivations(afterRecord, getStatDerivations(Field(character, "traits", <<>>)),
                         snapshot, FALSE)

calculateAllStats(character) ==
    LET firstPass == [statName \in StatSet |->
                        calculateStatWithBreakdown(statName, character)]
        snapshotLevel == getMostRecentSnapshotLevel(Field(character, "levelSnapshots", <<>>),
                                                    character.level)
        snapshot == IF snapshotLevel # NULL
                    THEN Field(character, "levelSnapshots", <<>>)[snapshotLevel]
                    ELSE NoSnapshot
        start == [stats      |-> [statName \in StatSet |-> firstPass[statName].final],
                  breakdowns |-> firstPass]
        afterTraits == ApplyDerivations(start, getStatDerivations(Field(character, "traits", <<>>)),
                                        snapshot, FALSE)
    IN  ApplyDerivations(afterTraits, Field(character, "statDerivations", <<>>), snapshot, TRUE)

(***************************************************************************)
(* Derived resources.  hp / mp are {current}; stored is FALSE when the      *)
(* record holds no current value (undefined).                              *)
(***************************************************************************)
Stored(current) == [stored |-> TRUE, current |-> current]

NotStored == [stored |-> FALSE, current |-> 0]

\* resource?.current || max
CurrentOr(resource, max) ==
    IF resource.stored /\ resource.current # 0 THEN resource.current ELSE max

\* a variant that leaves the bonded mana out of the maximum
calculateDerivedStatsOwnMana(finalStats, character, bondedMana) ==
    LET maxHp == Get(finalStats, "constitution") * HpPerConstitution
        maxMp == Get(finalStats, "mana") * MpPerMana
    IN  [hp |-> [current |-> Min(CurrentOr(Field(character, "hp", NotStored), maxHp), maxHp),
                 max     |-> maxHp],
         mp |-> [current |-> Min(CurrentOr(Field(character, "mp", NotStored), maxMp), maxMp),
                 max     |-> maxMp]]

calculateDerivedStats(finalStats, character, bondedMana) ==
    LET maxHp == Get(finalStats, "constitution") * HpPerConstitution
        maxMp == (Get(finalStats, "mana") + bondedMana) * MpPerMana
    IN  [hp |-> [current |-> Min(CurrentOr(Field(character, "hp", NotStored), maxHp), maxHp),
                 max     |-> maxHp],
         mp |-> [current |-> Min(CurrentOr(Field(character, "mp", NotStored), maxMp), maxMp),
                 max     |-> maxMp]]

(***************************************************************************)
(* The Character Record and its handlers.                                  *)
(***************************************************************************)
createDefaultCharacter ==
    [level           |-> 1,
     hp              |-> Stored(100),
     mp              |-> Stored(100),
     classHistory    |-> <<>>,
     levelSnapshots  |-> <<>>,
     freePoints      |-> ZeroMap,
     statDerivations |-> <<>>,
     traits          |-> <<>>,
     titles          |-> <<>>,
     statBoosts      |-> <<>>]

\* the record updateCompanion writes: {...prev, ...updates}
Merged(prev, updates) ==
    [f \in DOMAIN prev \cup DOMAIN updates |->
       IF f \in DOMAIN updates THEN updates[f] ELSE prev[f]]

\* items[index] = data for index >= 1, items.push(data) for index = 0
\* (editingIndex -1 in the source, whose lists count from 0)
SavedAt(items, index, data) ==
    IF index >= 1 THEN [items EXCEPT ![index] = data] ELSE Append(items, data)

\* items.filter((_, i) => i !== index)
Without(items, index) ==
    [i \in 1..(Len(items) - 1) |-> IF i < index THEN items[i] ELSE items[i + 1]]

\* !(entry.enabled !== false)
Toggled(entry) ==
    [entry EXCEPT !.enabled = IF entry.enabled # "false" THEN "false" ELSE "true"]

\* history.sort((a, b) => a.startLevel - b.startLevel), a stable sort
RECURSIVE SortedByStart(_)
SortedByStart(history) ==
    IF Len(history) <= 1 THEN history
    ELSE LET front == SortedByStart(SubSeq(history, 1, Len(history) - 1))
             last  == history[Len(history)]
             k     == Cardinality({i \in 1..Len(front) :
                                     front[i].startLevel <= last.startLevel})
         IN  SubSeq(front, 1, k) \o <<last>> \o SubSeq(front, k + 1, Len(front))

\* a variant whose title ledger is read from the record as it was before
\* its last title was saved, while the stats are those of the record itself
TakenSnapshotMixed(character, calc) ==
    LET before == IF character.titles = <<>> THEN <<>>
                  ELSE SubSeq(character.titles, 1, Len(character.titles) - 1)
        rawTitleBonuses == getTitleAdditiveBonuses(before)
        traitMultipliers ==
            [stat \in StatSet |->
               IF calc.breakdowns[stat].traitMultiplier # 0
               THEN calc.breakdowns[stat].traitMultiplier ELSE 1]
    IN  [format                       |-> "full",
         stats                        |-> calc.stats,
         rawTitleBonuses              |-> rawTitleBonuses,
         includedTraitMultipliers     |-> traitMultipliers,
         includedTitleBonuses         |->
             [stat \in StatSet |-> rawTitleBonuses[stat] * traitMultipliers[stat]],
         includedTitleMultipliers     |-> getTitleMultiplierBonuses(before),
         includedStatBoostBonuses     |-> getStatBoostAdditiveBonuses(character.statBoosts),
         includedStatBoostMultipliers |->
             getStatBoostMultiplierBonuses(character.statBoosts),
         includedDerivationBonuses    |->
             [stat \in StatSet |-> calc.breakdowns[stat].derivationBonus]]

\* the snapshot handleTakeSnapshot stores under character.level
TakenSnapshot(character, calc) ==
    LET rawTitleBonuses == getTitleAdditiveBonuses(character.titles)
        traitMultipliers ==
            [stat \in StatSet |->
               IF calc.breakdowns[stat].traitMultiplier # 0
               THEN calc.breakdowns[stat].traitMultiplier ELSE 1]
    IN  [format                       |-> "full",
         stats                        |-> calc.stats,
         rawTitleBonuses              |-> rawTitleBonuses,
         includedTraitMultipliers     |-> traitMultipliers,
         includedTitleBonuses         |->
             [stat \in StatSet |-> rawTitleBonuses[stat] * traitMultipliers[stat]],
         includedTitleMultipliers     |-> getTitleMultiplierBonuses(character.titles),
         includedStatBoostBonuses     |-> getStatBoostAdditiveBonuses(character.statBoosts),
         includedStatBoostMultipliers |->
             getStatBoostMultiplierBonuses(character.statBoosts),
         includedDerivationBonuses    |->
             [stat \in StatSet |-> calc.breakdowns[stat].derivationBonus]]

\* a variant that keeps no snapshot but the one stored
OnlySnapshot(levelSnapshots, level, snapshot) ==
    [l \in {level} |-> snapshot]

\* levelSnapshots with snapshot stored under level
WithSnapshot(levelSnapshots, level, snapshot) ==
    [l \in DOMAIN levelSnapshots \cup {level} |->
       IF l = level THEN snapshot ELSE levelSnapshots[l]]

\* delete snapshots[level]
WithoutSnapshot(levelSnapshots, level) ==
    [l \in DOMAIN levelSnapshots \ {level} |-> levelSnapshots[l]]

\* the record after handleTakeSnapshot
AfterTakeSnapshot(character, calc) ==
    Merged(character,
           [levelSnapshots |-> WithSnapshot(character.levelSnapshots, character.level,
                                            TakenSnapshot(character, calc))])

(***************************************************************************)
(* Ledger accounting.  included[l] is, for the snapshot stored under level *)
(* l, the amount of each bonus that the computation of its stats added:    *)
(* what its base snapshot already held plus the net amount added on top.   *)
(***************************************************************************)
NothingIncluded ==
    [titleAdditive |-> ZeroMap, boostAdditive |-> ZeroMap, derivation |-> ZeroMap]

IncludedAtCapture(character, calc, ledger) ==
    LET base == getMostRecentSnapshotLevel(character.levelSnapshots, character.level)
        prev == IF base # NULL THEN ledger[base] ELSE NothingIncluded
    IN  [titleAdditive |->
             [stat \in StatSet |-> prev.titleAdditive[stat]
                                   + calc.breakdowns[stat].netTitleAdditive],
         boostAdditive |->
             [stat \in StatSet |-> prev.boostAdditive[stat]
                                   + calc.breakdowns[stat].netBoostAdditive],
         derivation |->
             [stat \in StatSet |->
                prev.derivation[stat] + calc.stats[stat]
                - calculateStatWithBreakdown(stat, character).final]]

(***************************************************************************)
(* Bounds of the model.                                                    *)
(***************************************************************************)
MaxLevel == 2       \* levels entered in Spec and SpecDerivation are 1..MaxLevel
MaxGrowthLevel == 4 \* levels entered in SpecGrowth and SpecRedirect
MaxTitles == 1      \* longest list of titles where one title is edited
MaxTraits == 2      \* longest list of traits
MaxBoosts == 1      \* longest list of stat boosts where one boost is edited
MaxClasses == 2     \* longest class history
MaxCaptures == 2    \* snapshots captured in one behaviour
MaxStat == 40       \* a snapshot is captured only while |stat| <= MaxStat
MaxTitleList == 2   \* longest list of titles
MaxBoostList == 2   \* longest list of stat boosts
MaxCalls == 2       \* calls of calculateAllStats between two writes of the record

Levels == 1..MaxLevel

GrowthLevels == 1..MaxGrowthLevel

InRange(stats) == \A stat \in StatSet : stats[stat] <= MaxStat /\ -MaxStat <= stats[stat]

(***************************************************************************)
(* Handlers.  Each writes the record through updateCompanion.              *)
(***************************************************************************)
\* const payload = { main: mainData }; payload.companion = companionData
Payload(mainData, companionData) == [main |-> mainData, companion |-> companionData]

\* the auto-save effect after a render with these records:
\* if (main && isDirty) saveToServer(main, companion), which clears the
\* pending timer and sets one that carries the two records
AutoSave(dirty, mainData, companionData) ==
    IF dirty THEN <<Payload(mainData, companionData)>> ELSE saveTimeout

updateCompanion(updates) ==
    /\ companion' = Merged(companion, updates)
    /\ calculations' = <<>>
    /\ isDirty' = TRUE
    /\ saveTimeout' = AutoSave(TRUE, main, Merged(companion, updates))
    /\ UNCHANGED <<main, hasBond, server>>

handleLevelChange(newLevel) ==
    /\ updateCompanion([level |-> IF newLevel # 0 THEN newLevel ELSE 1])
    /\ UNCHANGED <<included, captures>>

\* {...prev.freePoints, [statName]: value}
WithPoints(freePoints, statName, value) ==
    [s \in DOMAIN freePoints \cup {statName} |->
       IF s = statName THEN value ELSE freePoints[s]]

updateCompanionFreePoints(statName, value) ==
    /\ updateCompanion([freePoints |->
           WithPoints(Field(companion, "freePoints", <<>>), statName, value)])
    /\ UNCHANGED <<included, captures>>

handleSaveEvolution(evolutionData, editingEvolutionIndex) ==
    /\ editingEvolutionIndex <= Len(companion.classHistory)
    /\ editingEvolutionIndex = 0 => Len(companion.classHistory) < MaxClasses
    /\ updateCompanion([classHistory |->
           SortedByStart(SavedAt(companion.classHistory, editingEvolutionIndex,
                                 evolutionData))])
    /\ UNCHANGED <<included, captures>>

handleDeleteEvolution(index) ==
    /\ index \in 1..Len(companion.classHistory)
    /\ updateCompanion([classHistory |-> Without(companion.classHistory, index)])
    /\ UNCHANGED <<included, captures>>

handleSaveSnapshot(level, stats) ==
    /\ updateCompanion([levelSnapshots |->
           WithSnapshot(companion.levelSnapshots, level, DirectSnapshot(stats))])
    /\ included' = WithSnapshot(included, level, NothingIncluded)
    /\ UNCHANGED captures

handleDeleteSnapshot(level) ==
    /\ level \in DOMAIN companion.levelSnapshots
    /\ updateCompanion([levelSnapshots |->
           WithoutSnapshot(companion.levelSnapshots, level)])
    /\ included' = WithoutSnapshot(included, level)
    /\ UNCHANGED captures

\* calc is companionCalculation: the stats and breakdowns the provider
\* resolved for the record being captured
handleTakeSnapshot ==
    /\ captures < MaxCaptures
    /\ \E calc \in {calculateAllStats(companion)} :
          /\ InRange(calc.stats)
          /\ companion' = AfterTakeSnapshot(companion, calc)
          /\ included' = WithSnapshot(included, companion.level,
                                      IncludedAtCapture(companion, calc, included))
    /\ captures' = captures + 1
    /\ calculations' = <<>>
    /\ isDirty' = TRUE
    /\ saveTimeout' = AutoSave(TRUE, main, companion')
    /\ UNCHANGED <<main, hasBond, server>>

handleSaveBoost(data, editingBoostIndex) ==
    /\ editingBoostIndex <= Len(companion.statBoosts)
    /\ editingBoostIndex = 0 => Len(companion.statBoosts) < MaxBoostList
    /\ updateCompanion([statBoosts |->
           SavedAt(companion.statBoosts, editingBoostIndex,
                   [data EXCEPT !.enabled =
                      IF editingBoostIndex >= 1
                         /\ companion.statBoosts[editingBoostIndex].enabled = "false"
                      THEN "false" ELSE "true"])])
    /\ UNCHANGED <<included, captures>>

handleDeleteBoost(index) ==
    /\ index \in 1..Len(companion.statBoosts)
    /\ updateCompanion([statBoosts |-> Without(companion.statBoosts, index)])
    /\ UNCHANGED <<included, captures>>

handleToggleBoost(index) ==
    /\ index \in 1..Len(companion.statBoosts)
    /\ updateCompanion([statBoosts |->
           [companion.statBoosts EXCEPT ![index] = Toggled(@)]])
    /\ UNCHANGED <<included, captures>>

\* {...newTitles[editingIndex], ...titleData}: titleData carries no enabled
\* flag, so an edited title keeps its flag and a new one has none
handleSaveTitle(titleData, editingIndex) ==
    /\ editingIndex <= Len(companion.titles)
    /\ editingIndex = 0 => Len(companion.titles) < MaxTitleList
    /\ updateCompanion([titles |->
           SavedAt(companion.titles, editingIndex,
                   [titleData EXCEPT !.enabled =
                      IF editingIndex >= 1 THEN companion.titles[editingIndex].enabled
                      ELSE "undefined"])])
    /\ UNCHANGED <<included, captures>>

handleDeleteTitle(index) ==
    /\ index \in 1..Len(companion.titles)
    /\ updateCompanion([titles |-> Without(companion.titles, index)])
    /\ UNCHANGED <<included, captures>>

handleToggleEnabled(index) ==
    /\ index \in 1..Len(companion.titles)
    /\ updateCompanion([titles |-> [companion.titles EXCEPT ![index] = Toggled(@)]])
    /\ UNCHANGED <<included, captures>>

handleSaveTrait(data, editingIndex) ==
    /\ editingIndex <= Len(companion.traits)
    /\ editingIndex = 0 => Len(companion.traits) < MaxTraits
    /\ updateCompanion([traits |-> SavedAt(companion.traits, editingIndex, data)])
    /\ UNCHANGED <<included, captures>>

handleDeleteTrait(index) ==
    /\ index \in 1..Len(companion.traits)
    /\ updateCompanion([traits |-> Without(companion.traits, index)])
    /\ UNCHANGED <<included, captures>>

updateMainStatDerivations(statDerivations) ==
    /\ updateCompanion([statDerivations |-> statDerivations])
    /\ UNCHANGED <<included, captures>>

\* the Resources fields: hp: {...hp, current: Number(value) || 0}
updateHpCurrent(value) ==
    /\ updateCompanion([hp |-> Stored(value)])
    /\ UNCHANGED <<included, captures>>

updateMpCurrent(value) ==
    /\ updateCompanion([mp |-> Stored(value)])
    /\ UNCHANGED <<included, captures>>

\* the provider resolves the record: calculateAllStats(companion) writes
\* nothing, its result is kept
companionCalculation ==
    /\ Len(calculations) < MaxCalls
    /\ calculations' = Append(calculations, calculateAllStats(companion))
    /\ UNCHANGED <<companion, included, captures, main, hasBond,
                   isDirty, saveTimeout, server>>

\* a variant that stores the clamped current values in the record
companionDerivedStatsStoring ==
    /\ Len(calculations) < MaxCalls
    /\ \E derived \in {calculateDerivedStats(calculateAllStats(companion).stats,
                                              companion, 0)} :
          /\ calculations' = Append(calculations, derived)
          /\ companion' = Merged(companion, [hp |-> Stored(derived.hp.current),
                                             mp |-> Stored(derived.mp.current)])
    /\ UNCHANGED <<included, captures, main, hasBond, isDirty, saveTimeout, server>>

\* the provider derives hp and mp: calculateDerivedStats(companionFinalStats,
\* companion, 0) writes nothing, its result is kept
companionDerivedStatsCalculation ==
    /\ Len(calculations) < MaxCalls
    /\ calculations' = Append(calculations,
                              calculateDerivedStats(calculateAllStats(companion).stats,
                                                    companion, 0))
    /\ UNCHANGED <<companion, included, captures, main, hasBond,
                   isDirty, saveTimeout, server>>

\* setMain: {...prev, ...updates}
updateMain(updates) ==
    /\ main' = Merged(main, updates)
    /\ isDirty' = TRUE
    /\ saveTimeout' = AutoSave(TRUE, Merged(main, updates), companion)
    /\ UNCHANGED <<companion, included, captures, hasBond, calculations, server>>

updateMainFreePoints(statName, value) ==
    updateMain([freePoints |-> [main.freePoints EXCEPT ![statName] = value]])

\* setMain(response.data.data.main); setCompanion(response.data.data.companion):
\* the records stored with a saved or imported snapshot replace both records;
\* isDirty is left as it is, and the auto-save effect runs on the new records
loadSnapshot(data) ==
    /\ main' = data.main
    /\ companion' = data.companion
    /\ included' = [level \in DOMAIN Field(data.companion, "levelSnapshots", <<>>) |->
                       NothingIncluded]
    /\ calculations' = <<>>
    /\ saveTimeout' = AutoSave(isDirty, data.main, data.companion)
    /\ UNCHANGED <<captures, hasBond, isDirty>>

\* loadConfig: the configuration served replaces the default one
loadConfig(bondEnabled) ==
    /\ hasBond' = bondEnabled
    /\ UNCHANGED <<companion, included, captures, main, calculations,
                   isDirty, saveTimeout, server>>

\* loadData has finished: the records are those GET /api/current served
Init ==
    /\ companion = createDefaultCharacter
    /\ included = <<>>
    /\ captures = 0
    /\ main = createDefaultCharacter
    /\ hasBond = FALSE
    /\ calculations = <<>>
    /\ isDirty = FALSE
    /\ saveTimeout = <<>>
    /\ requests = {}
    /\ responses = {}
    /\ currentFile = Payload(createDefaultCharacter, createDefaultCharacter)
    /\ snapshotsFile = <<>>
    /\ reads = {}
    /\ nextId = 0
    /\ answered = {}

(***************************************************************************)
(* Spec: titles, trait multipliers, free points and snapshot capture.      *)
(***************************************************************************)
TitleInputs ==
    {Title("undefined", <<Bonus("mana", 5, 0)>>),
     Title("undefined", <<Bonus("mana", 4, 50)>>)}

MultiplierTraits ==
    {Trait(<<StatMultiplier("mana", 2)>>)}

EditTitle ==
    \/ \E titleData \in TitleInputs, editingIndex \in 0..MaxTitles :
          /\ editingIndex = 0 => Len(companion.titles) < MaxTitles
          /\ handleSaveTitle(titleData, editingIndex)
    \/ \E index \in 1..MaxTitles : handleDeleteTitle(index)

EditMultiplierTrait ==
    \/ \E data \in MultiplierTraits, editingIndex \in 0..MaxTraits :
          handleSaveTrait(data, editingIndex)
    \/ \E index \in 1..MaxTraits : handleDeleteTrait(index)

EditFreePoints ==
    \E value \in {0, 2} : updateCompanionFreePoints("mana", value)

ChangeLevel ==
    \E newLevel \in Levels : handleLevelChange(newLevel)

Next ==
    \/ EditTitle
    \/ EditMultiplierTrait
    \/ EditFreePoints
    \/ ChangeLevel
    \/ handleTakeSnapshot

Spec == Init /\ [][Next]_vars

(***************************************************************************)
(* Properties of Spec.                                                     *)
(***************************************************************************)
Resolved(character) == calculateAllStats(character).stats

companionDerivedStats == calculateDerivedStats(Resolved(companion), companion, 0)

\* C1: capturing a snapshot at the current level and resolving again, with
\* no other edit, gives each of the eight stats the value it had before.
C1_SnapshotRoundTrip ==
    \A stat \in StatSet :
        Resolved(AfterTakeSnapshot(companion, calculateAllStats(companion)))[stat]
        = Resolved(companion)[stat]

\* C2: the ledger of every captured snapshot equals the amount of each bonus
\* that is contained in the snapshot's stats.
C2_LedgerMatchesIncluded ==
    \A level \in DOMAIN companion.levelSnapshots :
        LET snapshot == companion.levelSnapshots[level]
        IN  snapshot.format = "full" =>
              \A stat \in StatSet :
                 /\ snapshot.rawTitleBonuses[stat]
                      * snapshot.includedTraitMultipliers[stat]
                    = included[level].titleAdditive[stat]
                 /\ snapshot.includedStatBoostBonuses[stat]
                    = included[level].boostAdditive[stat]
                 /\ snapshot.includedDerivationBonuses[stat]
                    = included[level].derivation[stat]

\* the record with the additive of bonus j of title i raised by delta
WithTitleAdditiveRaised(character, i, j, delta) ==
    Merged(character,
           [titles |-> [character.titles EXCEPT ![i].bonuses[j].additive = @ + delta]])

\* the record with the additive of boost i raised by delta
WithBoostAdditiveRaised(character, i, delta) ==
    Merged(character,
           [statBoosts |-> [character.statBoosts EXCEPT ![i].additive = @ + delta]])

\* C4: raising the additive value of an enabled title bonus or stat boost,
\* all else fixed, never lowers the resolved value of the bonus's stat.
C4_AdditiveMonotone ==
    /\ \A i \in 1..Len(companion.titles) :
         \A j \in 1..Len(companion.titles[i].bonuses) :
            companion.titles[i].enabled # "false" =>
              LET stat == companion.titles[i].bonuses[j].stat
              IN  Resolved(WithTitleAdditiveRaised(companion, i, j, 1))[stat]
                  >= Resolved(companion)[stat]
    /\ \A i \in 1..Len(companion.statBoosts) :
         companion.statBoosts[i].enabled # "false" =>
           LET stat == companion.statBoosts[i].stat
           IN  Resolved(WithBoostAdditiveRaised(companion, i, 1))[stat]
               >= Resolved(companion)[stat]

\* the snapshot the resolution of character starts from
BaseSnapshot(character) ==
    LET level == getMostRecentSnapshotLevel(character.levelSnapshots, character.level)
    IN  IF level # NULL THEN character.levelSnapshots[level] ELSE NoSnapshot

\* C6: when the most recent snapshot recorded raw title additive values, the
\* net title additive is current raw x current trait multiplier minus
\* snapshot raw x snapshot trait multiplier.
C6_NetTitleAdditive ==
    BaseSnapshot(companion).format = "full" =>
      \A stat \in StatSet :
         LET b == calculateStatWithBreakdown(stat, companion)
         IN  b.netTitleAdditive
             = b.titleAdditive * b.traitMultiplier
               - BaseSnapshot(companion).rawTitleBonuses[stat]
                 * BaseSnapshot(companion).includedTraitMultipliers[stat]

(***************************************************************************)
(* SpecGrowth: class history, level and manually saved snapshots.          *)
(***************************************************************************)
ClassInputs ==
    {Class(1, 3, [strength |-> 2]),
     Class(2, NULL, [strength |-> 1]),
     Class(1, NULL, [strength |-> -1])}

SnapshotStats == [ZeroMap EXCEPT !["strength"] = 10]

EditClass ==
    \/ \E evolutionData \in ClassInputs, editingEvolutionIndex \in 0..MaxClasses :
          handleSaveEvolution(evolutionData, editingEvolutionIndex)
    \/ \E index \in 1..MaxClasses : handleDeleteEvolution(index)

ChangeGrowthLevel ==
    \E newLevel \in GrowthLevels : handleLevelChange(newLevel)

EditSnapshot ==
    \/ \E level \in GrowthLevels : handleSaveSnapshot(level, SnapshotStats)
    \/ \E level \in GrowthLevels : handleDeleteSnapshot(level)

NextGrowth ==
    \/ EditClass
    \/ ChangeGrowthLevel
    \/ EditSnapshot

SpecGrowth == Init /\ [][NextGrowth]_vars

\* the number of levels of [from + 1, level] that lie in [startLevel + 1, endLevel]
LevelsInRange(cls, from, level) ==
    Cardinality({l \in (from + 1)..level :
                   /\ l >= cls.startLevel + 1
                   /\ (cls.endLevel = NULL \/ l <= cls.endLevel)})

Growth(stat) == calculateStatWithBreakdown(stat, companion).classScaling

\* C3: with no snapshot and a single growth phase {s, e, d} the growth of the
\* stat at level L is d x max(0, min(L, e) - s).
C3_GrowthWithoutSnapshot ==
    (DOMAIN companion.levelSnapshots = {} /\ Len(companion.classHistory) = 1) =>
      LET cls == companion.classHistory[1]
          end == IF cls.endLevel = NULL THEN companion.level
                 ELSE Min(companion.level, cls.endLevel)
      IN  Growth("strength")
          = cls.statsPerLevel["strength"] * Max(0, end - cls.startLevel)

\* C8 as stated: with a snapshot at level S every phase contributes its delta,
\* of either sign, times the levels of [S+1, L] within [start+1, end].
C8_GrowthAnyDelta ==
    LET S == getMostRecentSnapshotLevel(companion.levelSnapshots, companion.level)
    IN  S # NULL =>
          Growth("strength")
          = SumOf([i \in 1..Len(companion.classHistory) |->
                     companion.classHistory[i].statsPerLevel["strength"]
                     * LevelsInRange(companion.classHistory[i], S, companion.level)])

\* C8 amended: with a snapshot at level S every phase with a non-negative
\* delta contributes delta x the levels of [S+1, L] within [start+1, end], a
\* phase with a negative delta contributes 0, the growth is the sum over all
\* phases (overlapping ones included), and the stat resolves to the snapshot
\* base plus that growth.
C8_GrowthOverlap ==
    LET S == getMostRecentSnapshotLevel(companion.levelSnapshots, companion.level)
        expected ==
            SumOf([i \in 1..Len(companion.classHistory) |->
                     Max(0, companion.classHistory[i].statsPerLevel["strength"])
                     * LevelsInRange(companion.classHistory[i], S, companion.level)])
    IN  S # NULL =>
          /\ Growth("strength") = expected
          /\ Resolved(companion)["strength"]
             = companion.levelSnapshots[S].stats["strength"] + expected

\* a snapshot below the level, and two phases that both grant levels after it
C8_Witness ==
    LET S == getMostRecentSnapshotLevel(companion.levelSnapshots, companion.level)
    IN  /\ S # NULL
        /\ S < companion.level
        /\ Len(companion.classHistory) = 2
        /\ \A i \in 1..2 :
              /\ companion.classHistory[i].statsPerLevel["strength"] > 0
              /\ LevelsInRange(companion.classHistory[i], S, companion.level) > 0
        /\ Growth("strength") = 5

(***************************************************************************)
(* SpecRedirect: redirect traits, manual free points, level and manually   *)
(* saved snapshots.  A redirect effect without toStat is what the trait    *)
(* editor stores when the effect type is switched to redirect and no stat  *)
(* is picked.                                                              *)
(***************************************************************************)
RedirectTraits ==
    {Trait(<<RedirectFreePoints("mana")>>),
     Trait(<<RedirectFreePoints("strength")>>),
     Trait(<<RedirectFreePoints(NoStat), RedirectFreePoints("mana")>>)}

EditRedirectTrait ==
    \/ \E data \in RedirectTraits, editingIndex \in 0..MaxTraits :
          handleSaveTrait(data, editingIndex)
    \/ \E index \in 1..MaxTraits : handleDeleteTrait(index)

EditStrengthPoints ==
    \E value \in {0, 9} : updateCompanionFreePoints("strength", value)

EditBaseSnapshot ==
    \/ \E level \in {2, 3} : handleSaveSnapshot(level, ZeroMap)
    \/ \E level \in {2, 3} : handleDeleteSnapshot(level)

NextRedirect ==
    \/ EditRedirectTrait
    \/ EditStrengthPoints
    \/ ChangeGrowthLevel
    \/ EditBaseSnapshot

SpecRedirect == Init /\ [][NextRedirect]_vars

Redirected == getRedirectedFreePoints(companion.traits, companion.level, 1)

\* C5 as stated: while a redirect is active the manual free points count for
\* no stat, the redirect target included.
C5_ManualIgnoredEverywhere ==
    Redirected.targetStat # NoStat =>
      \A stat \in StatSet :
         calculateStatWithBreakdown(stat, companion).freePoints = 0

\* C5 amended: while a redirect is active the manual free points count 0 for
\* every stat other than the redirect target; for the target they are still
\* added to its gains, on top of the redirected points.
C5_ManualOnlyForTarget ==
    Redirected.targetStat # NoStat =>
      \A stat \in StatSet :
         LET b == calculateStatWithBreakdown(stat, companion)
         IN  /\ b.freePoints = IF stat = Redirected.targetStat
                               THEN companion.freePoints[stat] ELSE 0
             /\ b.gainsBeforeTrait = b.redirectedFreePoints + b.classScaling
                                     + b.freePoints
             /\ Resolved(companion)[stat] = b.snapshotBase + b.gainsBeforeTrait

\* a redirect to another stat is active while strength holds manual points
C5_Witness ==
    /\ Redirected.targetStat = "mana"
    /\ companion.freePoints["strength"] = 9
    /\ Resolved(companion)["strength"] = 0

\* the level the redirected points are counted from
FromLevel ==
    LET S == getMostRecentSnapshotLevel(companion.levelSnapshots, companion.level)
    IN  IF S # NULL THEN S ELSE 1

NamingTraits ==
    {t \in 1..Len(companion.traits) :
       \E i \in 1..Len(companion.traits[t].effects) :
          /\ companion.traits[t].effects[i].type = "redirect_free_points"
          /\ companion.traits[t].effects[i].toStat # NoStat
          /\ \A j \in 1..(i - 1) :
                companion.traits[t].effects[j].type # "redirect_free_points"}

DerivationTraits == {Trait(<<StatDerivation("mana", "intellect", 29)>>)}

DerivationLists == {<<>>, <<StatDerivation("mana", "intellect", 25)>>}

EditDerivationTrait ==
    \/ \E data \in DerivationTraits, editingIndex \in 0..MaxTraits :
          handleSaveTrait(data, editingIndex)
    \/ \E index \in 1..MaxTraits : handleDeleteTrait(index)

EditStatDerivations ==
    \E statDerivations \in DerivationLists :
       updateMainStatDerivations(statDerivations)

EditManaPoints ==
    \E value \in {0, 40, 100} : updateCompanionFreePoints("mana", value)

NextDerivation ==
    \/ EditDerivationTrait
    \/ EditStatDerivations
    \/ EditManaPoints
    \/ handleTakeSnapshot

SpecDerivation == Init /\ [][NextDerivation]_vars

\* the rules in the order they are applied: those of traits, then the record's
RulesOf(character) ==
    getStatDerivations(character.traits) \o character.statDerivations

\* the derivation bonus the most recent snapshot records for a stat
LedgeredDerivation(character, stat) ==
    LET S == getMostRecentSnapshotLevel(character.levelSnapshots, character.level)
    IN  IF S = NULL \/ character.levelSnapshots[S].format # "full" THEN 0
        ELSE character.levelSnapshots[S].includedDerivationBonuses[stat]

\* the stats after every rule has added floor(source x percent / 100) minus
\* the ledgered bonus of its target
RECURSIVE WithRuleNets(_, _, _)
WithRuleNets(stats, rules, character) ==
    IF rules = <<>> THEN stats
    ELSE LET rule == Head(rules)
             net == (stats[rule.sourceStat] * rule.percent) \div 100
                    - LedgeredDerivation(character, rule.targetStat)
         IN  WithRuleNets([stats EXCEPT ![rule.targetStat] = @ + net],
                          Tail(rules), character)

\* C9: every derivation rule between known stats adds
\* floor(resolved[source] x percent / 100) minus the derivation bonus ledgered
\* by the most recent snapshot for the target (0 if none) to the target; rules
\* sharing a target each add their net.
C9_DerivationNet ==
    Resolved(companion)
    = WithRuleNets([stat \in StatSet |->
                       calculateStatWithBreakdown(stat, companion).final],
                   RulesOf(companion), companion)

(***************************************************************************)
(* SpecDerived: the Resources fields and the free points behind the        *)
(* maxima.                                                                 *)
(***************************************************************************)
EditResources ==
    \/ \E value \in {0, 30, 60} : updateHpCurrent(value)
    \/ \E value \in {0, 30, 60} : updateMpCurrent(value)

EditResourcePoints ==
    \/ \E value \in {0, 2, 5, 20} : updateCompanionFreePoints("constitution", value)
    \/ \E value \in {0, 5} : updateCompanionFreePoints("mana", value)

NextDerived ==
    \/ EditResources
    \/ EditResourcePoints

SpecDerived == Init /\ [][NextDerived]_vars

\* C7: current hp / mp is min(stored current, max) whenever the record holds
\* a current value, a stored 0 included, and max only when it holds none, so
\* that the returned current never exceeds the stored one.
C7_CurrentClamped ==
    /\ companionDerivedStats.hp.current
       = IF companion.hp.stored
         THEN Min(companion.hp.current, companionDerivedStats.hp.max)
         ELSE companionDerivedStats.hp.max
    /\ companionDerivedStats.mp.current
       = IF companion.mp.stored
         THEN Min(companion.mp.current, companionDerivedStats.mp.max)
         ELSE companionDerivedStats.mp.max

(***************************************************************************)
(* SpecCalculation: the edits of SpecDerivation, and the provider          *)
(* resolving the record between them.                                      *)
(***************************************************************************)
NextCalculation ==
    \/ EditDerivationTrait
    \/ EditStatDerivations
    \/ EditManaPoints
    \/ handleTakeSnapshot
    \/ companionCalculation

SpecCalculation == Init /\ [][NextCalculation]_vars

companionFinalStats == Resolved(companion)

\* main gets half of the companion's mana
syncedManaForMain ==
    IF ~hasBond \/ companionFinalStats["mana"] = 0
    THEN 0
    ELSE RoundHalf(companionFinalStats["mana"])

\* a variant that folds the borrowed mana into the resolved map
mainFinalStatsWithSynced ==
    [Resolved(main) EXCEPT !["mana"] = @ + syncedManaForMain]

mainFinalStats == Resolved(main)

mainDerivedStats == calculateDerivedStats(mainFinalStats, main, syncedManaForMain)

EditCompanionMana ==
    \E value \in {-3, 0, 1, 2, 5} : updateCompanionFreePoints("mana", value)

EditMainPoints ==
    \/ \E value \in {0, 3, 7} : updateMainFreePoints("mana", value)
    \/ \E value \in {0, 2} : updateMainFreePoints("constitution", value)

LoadConfig ==
    \E bondEnabled \in BOOLEAN : loadConfig(bondEnabled)

NextBond ==
    \/ EditCompanionMana
    \/ EditTitle
    \/ EditMainPoints
    \/ LoadConfig

SpecBond == Init /\ [][NextBond]_vars

\* the mana main borrows: round(companionMana / 2), 0 with the bond disabled
Borrowed == IF hasBond THEN RoundHalf(Resolved(companion)["mana"]) ELSE 0

\* C12: a step that changes the companion's resolved mana leaves the main
\* character's record and its resolved stats, stats.mana included, as they
\* were, while the main character's maxMP follows the borrowed value:
\* maxMP = (stats.mana + round(companionMana / 2)) x 10, the borrowed value
\* being 0 when the bond is disabled.
C12_BondSyncNotPersisted ==
    [][Resolved(companion')["mana"] # Resolved(companion)["mana"] =>
         /\ main' = main
         /\ mainFinalStats' = mainFinalStats
         /\ mainFinalStats'["mana"] = main.freePoints["mana"]
         /\ mainDerivedStats'.mp.max
            = (mainFinalStats["mana"] + Borrowed') * MpPerMana
         /\ (Borrowed' # Borrowed =>
               mainDerivedStats'.mp.max # mainDerivedStats.mp.max)]_vars

\* bonded, the companion's mana 5 lends 3 to a main character with mana 3
C12_Witness ==
    /\ hasBond
    /\ companionFinalStats["mana"] = 5
    /\ main.freePoints["mana"] = 3
    /\ mainFinalStats["mana"] = 3
    /\ mainDerivedStats.mp.max = 60

\* the map without its entry for stat
WithoutEntry(map, stat) == [s \in DOMAIN map \ {stat} |-> map[s]]

\* C24: calculateDerivedStats returns hp.max = resolved constitution x 10 and
\* mp.max = (resolved mana + borrowed bond mana) x 10; a missing constitution
\* or mana is read as 0, and the borrowed mana is 0 where none is passed.
C24_DerivedMaxima ==
    \A own \in {Resolved(main)}, other \in {Resolved(companion)} :
       \A borrowed \in {IF hasBond THEN RoundHalf(other["mana"]) ELSE 0} :
          /\ mainDerivedStats.hp.max = own["constitution"] * 10
          /\ mainDerivedStats.mp.max = (own["mana"] + borrowed) * 10
          /\ calculateDerivedStats(other, companion, 0).hp.max
             = other["constitution"] * 10
          /\ calculateDerivedStats(other, companion, 0).mp.max = other["mana"] * 10
          /\ calculateDerivedStats(WithoutEntry(own, "constitution"),
                                   main, borrowed).hp.max = 0
          /\ calculateDerivedStats(WithoutEntry(own, "mana"),
                                   main, borrowed).mp.max = borrowed * 10

\* bond enabled, companion mana 5, main mana 7 and constitution 2: the main
\* character borrows 3, maxMP is (7 + 3) x 10 and maxHP 2 x 10
C24_Witness ==
    /\ hasBond
    /\ Resolved(companion)["mana"] = 5
    /\ Resolved(main)["mana"] = 7
    /\ Resolved(main)["constitution"] = 2
    /\ mainDerivedStats.mp.max = 100
    /\ mainDerivedStats.hp.max = 20
    /\ companionDerivedStats.mp.max = 50

(***************************************************************************)
(* SpecSnapshots: snapshots taken, saved by hand and deleted, between      *)
(* changes of level and of free points.                                    *)
(***************************************************************************)
NextSnapshots ==
    \/ ChangeGrowthLevel
    \/ EditFreePoints
    \/ EditSnapshot
    \/ handleTakeSnapshot

SpecSnapshots == Init /\ [][NextSnapshots]_vars

\* the entry under level is in the next state what it is now
Kept(level) ==
    /\ level \in DOMAIN companion'.levelSnapshots
    /\ companion'.levelSnapshots[level] = companion.levelSnapshots[level]

OperationOn(level) ==
    \/ companion.level = level /\ handleTakeSnapshot
    \/ handleSaveSnapshot(level, SnapshotStats)
    \/ handleDeleteSnapshot(level)

EscalationLevels == {EscalationLevel - 1, EscalationLevel}

RatedBoost == Boost("mana", 0, 25, "true")

ChangeEscalationLevel ==
    \E newLevel \in EscalationLevels : handleLevelChange(newLevel)

EditOneTrait ==
    \/ /\ companion.traits = <<>>
       /\ \E data \in MultiplierTraits : handleSaveTrait(data, 0)
    \/ handleDeleteTrait(1)

EditRatedBoost ==
    \/ Len(companion.statBoosts) < MaxBoosts /\ handleSaveBoost(RatedBoost, 0)
    \/ handleDeleteBoost(1)

NextEscalation ==
    \/ ChangeEscalationLevel
    \/ EditTitle
    \/ EditOneTrait
    \/ EditRatedBoost
    \/ handleTakeSnapshot

SpecEscalation == Init /\ [][NextEscalation]_vars

Mana == calculateStatWithBreakdown("mana", companion)

\* the net rates of mana: the current totals minus what the snapshot ledgers
NetTitleRate == Mana.titleMultiplier - Mana.snapshotIncludedTitleMultiplier

NetBoostRate == Mana.statBoostMultiplier - Mana.snapshotIncludedBoostMultiplier

\* C14: the net title rate is multiplied by the trait multiplier if and only
\* if level >= 30, traitMultiplier > 1 and netTitleRate > 0, and is used
\* unchanged otherwise; the net boost rate is never scaled.
C14_Level30Escalation ==
    LET escalated == /\ companion.level >= 30
                     /\ Mana.traitMultiplier > 1
                     /\ NetTitleRate > 0
        titleRate == IF escalated THEN NetTitleRate * Mana.traitMultiplier
                     ELSE NetTitleRate
    IN  /\ Mana.effectiveTitleMultiplier = titleRate
        /\ Mana.final = IF titleRate + NetBoostRate > 0
                        THEN Round100(Mana.preFinalValue
                                      * (100 + titleRate + NetBoostRate))
                        ELSE Mana.preFinalValue

\* level 30, trait x2: the title rate 0.5 counts 1.0, the boost rate 0.25 as
\* it is, and mana 4 x 2 = 8 resolves to 8 x 2.25 = 18
C14_Witness ==
    /\ companion.level = 30
    /\ Mana.traitMultiplier = 2
    /\ NetTitleRate = 50
    /\ NetBoostRate = 25
    /\ Mana.effectiveTitleMultiplier = 100
    /\ Mana.final = 18

ManaClass == Class(1, NULL, [mana |-> 1])

AdditiveBoost == Boost("mana", 3, 0, "true")

ManaTraits ==
    {Trait(<<StatMultiplier("mana", 2)>>), Trait(<<RedirectFreePoints("mana")>>)}

EditManaClass ==
    \/ handleSaveEvolution(ManaClass, 0)
    \/ handleDeleteEvolution(1)

EditManaTrait ==
    \/ /\ companion.traits = <<>>
       /\ \E data \in ManaTraits : handleSaveTrait(data, 0)
    \/ handleDeleteTrait(1)

EditAdditiveBoost ==
    \/ Len(companion.statBoosts) < MaxBoosts /\ handleSaveBoost(AdditiveBoost, 0)
    \/ handleDeleteBoost(1)

EditManaTitle ==
    \/ /\ Len(companion.titles) < MaxTitles
       /\ handleSaveTitle(Title("undefined", <<Bonus("mana", 5, 0)>>), 0)
    \/ handleDeleteTitle(1)

TakeFirstSnapshot == captures = 0 /\ handleTakeSnapshot

NextComposer ==
    \/ ChangeLevel
    \/ EditManaClass
    \/ EditManaTrait
    \/ EditAdditiveBoost
    \/ EditManaTitle
    \/ EditFreePoints
    \/ TakeFirstSnapshot

SpecComposer == Init /\ [][NextComposer]_vars

\* C16: preMultiplierValue = snapshot base + (growth + redirected + manual
\* free points) x traitMultiplier + netTitleAdditive + (currentBoostAdditive
\* - snapshot included boost additive); the trait multiplier scales neither
\* the snapshot base nor the boost additive, and without a snapshot the
\* title additive counts x traitMultiplier.
C16_TraitMultiplierScope ==
    LET S == getMostRecentSnapshotLevel(companion.levelSnapshots, companion.level)
        base == IF S = NULL THEN 0 ELSE companion.levelSnapshots[S].stats["mana"]
        ledgered == IF S = NULL THEN 0
                    ELSE companion.levelSnapshots[S].includedStatBoostBonuses["mana"]
        boosts == SelectSeq(companion.statBoosts,
                            LAMBDA b : b.stat = "mana" /\ b.enabled # "false")
        boostAdditive == SumOf([i \in 1..Len(boosts) |-> boosts[i].additive])
        trait == getTraitMultiplier(companion.traits, "mana")
    IN  /\ Mana.preFinalValue
           = base
             + (Mana.classScaling + Mana.redirectedFreePoints + Mana.freePoints)
               * trait
             + Mana.netTitleAdditive
             + (boostAdditive - ledgered)
        /\ S = NULL =>
             Mana.netTitleAdditive
             = getTitleAdditiveBonuses(companion.titles)["mana"] * trait

\* above a snapshot that ledgers the boost additive 3, the boost since
\* deleted: growth 1 and manual points 2 count x2, the base counts once and
\* the net boost additive is -3
C16_Witness ==
    /\ companion.level = 2
    /\ 1 \in DOMAIN companion.levelSnapshots
    /\ Mana.snapshotBase >= 5
    /\ Mana.snapshotIncludedBoostAdditive = 3
    /\ Mana.statBoostAdditive = 0
    /\ Mana.classScaling = 1
    /\ Mana.freePoints = 2
    /\ Mana.traitMultiplier = 2
    /\ Mana.preFinalValue
       = Mana.snapshotBase + (1 + 2) * 2 + Mana.netTitleAdditive - 3

(***************************************************************************)
(* SpecOrder: derivation rules between mana and intellect in both          *)
(* directions, held by traits and by the record, and the free points of    *)
(* both stats.                                                             *)
(***************************************************************************)
ManaToIntellect == StatDerivation("mana", "intellect", 50)

IntellectToMana == StatDerivation("intellect", "mana", 50)

OrderTraits == {Trait(<<ManaToIntellect>>), Trait(<<IntellectToMana>>)}

OrderLists ==
    {<<>>, <<ManaToIntellect>>, <<IntellectToMana>>,
     <<ManaToIntellect, IntellectToMana>>, <<IntellectToMana, ManaToIntellect>>}

EditOrderTrait ==
    \/ \E data \in OrderTraits, editingIndex \in 0..MaxTraits :
          handleSaveTrait(data, editingIndex)
    \/ \E index \in 1..MaxTraits : handleDeleteTrait(index)

EditOrderList ==
    \E statDerivations \in OrderLists : updateMainStatDerivations(statDerivations)

EditOrderPoints ==
    \/ \E value \in {0, 8} : updateCompanionFreePoints("mana", value)
    \/ \E value \in {0, 4} : updateCompanionFreePoints("intellect", value)

NextOrder ==
    \/ EditOrderTrait
    \/ EditOrderList
    \/ EditOrderPoints
    \/ TakeFirstSnapshot

SpecOrder == Init /\ [][NextOrder]_vars

\* the stats once rule has been applied to the stats before it
AfterRule(before, rule, character) ==
    [before EXCEPT ![rule.targetStat] =
        @ + (before[rule.sourceStat] * rule.percent) \div 100
          - LedgeredDerivation(character, rule.targetStat)]

\* the stats once the first k rules have been applied, each to the stats the
\* rules before it have left
RECURSIVE AfterRules(_, _)
AfterRules(character, k) ==
    IF k = 0
    THEN [stat \in StatSet |-> calculateStatWithBreakdown(stat, character).final]
    ELSE CHOOSE after \in {AfterRule(before, RulesOf(character)[k], character) :
                             before \in {AfterRules(character, k - 1)}} : TRUE

Reversed(list) == [i \in 1..Len(list) |-> list[Len(list) + 1 - i]]

\* C17: derivation rules are applied one at a time in list order, those of
\* the traits before those of the record, and every rule reads the value its
\* source stat has after the rules before it; a pair A -> B, B -> A therefore
\* resolves differently in its two orders.
C17_AppliedInOrder ==
    /\ Resolved(companion) = AfterRules(companion, Len(RulesOf(companion)))
    /\ (/\ companion.traits = <<>>
        /\ companion.levelSnapshots = <<>>
        /\ Len(companion.statDerivations) = 2
        /\ companion.freePoints["mana"] = 8
        /\ companion.freePoints["intellect"] = 4)
       => Resolved(companion)
          # Resolved([companion EXCEPT !.statDerivations = Reversed(@)])

\* mana 8 -> intellect 4 + 4 = 8, then intellect 8 -> mana 8 + 4 = 12; in the
\* other order mana would be 10 and intellect 9
C17_Witness ==
    /\ companion.traits = <<>>
    /\ companion.levelSnapshots = <<>>
    /\ companion.statDerivations = <<ManaToIntellect, IntellectToMana>>
    /\ companion.freePoints["mana"] = 8
    /\ companion.freePoints["intellect"] = 4
    /\ Resolved(companion)["intellect"] = 8
    /\ Resolved(companion)["mana"] = 12
    /\ Resolved([companion EXCEPT !.statDerivations = Reversed(@)])["mana"] = 10
    /\ Resolved([companion EXCEPT !.statDerivations = Reversed(@)])["intellect"] = 9

\* a trait holds intellect -> mana and the record mana -> intellect: the rule
\* of the trait is applied first
C17_WitnessTraitFirst ==
    /\ companion.traits = <<Trait(<<IntellectToMana>>)>>
    /\ companion.statDerivations = <<ManaToIntellect>>
    /\ companion.levelSnapshots = <<>>
    /\ companion.freePoints["mana"] = 8
    /\ companion.freePoints["intellect"] = 4
    /\ Resolved(companion)["mana"] = 10
    /\ Resolved(companion)["intellect"] = 9

(***************************************************************************)
(* SpecAggregation: up to two titles and two stat boosts, saved, deleted   *)
(* and switched on and off.                                                *)
(***************************************************************************)
AggregatedTitles ==
    {Title("undefined", <<Bonus("mana", 5, 0)>>),
     Title("undefined", <<Bonus("mana", 4, 50), Bonus("intellect", 2, 25)>>)}

AggregatedBoosts == {Boost("mana", 3, 0, "true"), Boost("mana", 1, 25, "true")}

EditTitles ==
    \/ \E titleData \in AggregatedTitles, editingIndex \in 0..MaxTitleList :
          handleSaveTitle(titleData, editingIndex)
    \/ \E index \in 1..MaxTitleList : handleDeleteTitle(index)
    \/ \E index \in 1..MaxTitleList : handleToggleEnabled(index)

EditBoosts ==
    \/ \E data \in AggregatedBoosts, editingBoostIndex \in 0..MaxBoostList :
          handleSaveBoost(data, editingBoostIndex)
    \/ \E index \in 1..MaxBoostList : handleDeleteBoost(index)
    \/ \E index \in 1..MaxBoostList : handleToggleBoost(index)

NextAggregation ==
    \/ EditTitles
    \/ EditBoosts

SpecAggregation == Init /\ [][NextAggregation]_vars

\* what one entry with the given flag adds to a total
Contributed(enabled, amount) == IF enabled = "false" THEN 0 ELSE amount

\* the additive total (rate FALSE) or rate total (rate TRUE) of the titles
TitleTotal(titles, stat, rate) ==
    SumOf([i \in 1..Len(titles) |->
             Contributed(titles[i].enabled,
                SumOf([j \in 1..Len(titles[i].bonuses) |->
                         IF titles[i].bonuses[j].stat # stat THEN 0
                         ELSE IF rate THEN titles[i].bonuses[j].multiplier
                         ELSE titles[i].bonuses[j].additive]))])

\* the additive total or rate total of the stat boosts
BoostTotal(statBoosts, stat, rate) ==
    SumOf([i \in 1..Len(statBoosts) |->
             Contributed(statBoosts[i].enabled,
                IF statBoosts[i].stat # stat THEN 0
                ELSE IF rate THEN statBoosts[i].multiplier
                ELSE statBoosts[i].additive)])

\* C18: a title or stat boost counts towards the additive total and the rate
\* total of a stat if and only if its enabled flag is not false (no flag
\* counts as enabled); each total is the plain sum over the entries that
\* count, the totals of the titles depend on the titles alone and those of
\* the stat boosts on the stat boosts alone.
C18_BonusAggregation ==
    \A stat \in StatSet :
       LET breakdown == calculateStatWithBreakdown(stat, companion)
       IN  /\ breakdown.titleAdditive = TitleTotal(companion.titles, stat, FALSE)
           /\ breakdown.titleMultiplier = TitleTotal(companion.titles, stat, TRUE)
           /\ breakdown.statBoostAdditive
              = BoostTotal(companion.statBoosts, stat, FALSE)
           /\ breakdown.statBoostMultiplier
              = BoostTotal(companion.statBoosts, stat, TRUE)

\* two titles, the first without a flag, the second switched on again, and two
\* stat boosts, the first switched off: mana totals 5 + 4, 0 + 50, 1 and 25
C18_Witness ==
    /\ Len(companion.titles) = 2
    /\ companion.titles[1].enabled = "undefined"
    /\ companion.titles[2].enabled = "true"
    /\ Len(companion.statBoosts) = 2
    /\ companion.statBoosts[1].enabled = "false"
    /\ companion.statBoosts[1].additive = 3
    /\ companion.statBoosts[2].enabled = "true"
    /\ Mana.titleAdditive = 9
    /\ Mana.titleMultiplier = 50
    /\ Mana.statBoostAdditive = 1
    /\ Mana.statBoostMultiplier = 25

(***************************************************************************)
(* SpecTraits: traits written by the trait editor, which stores            *)
(* Number(input) || 1 as a multiplier, and records loaded from stored      *)
(* snapshots, which are saved or imported JSON and hold any number.        *)
(***************************************************************************)
EditorTraits ==
    {Trait(<<StatMultiplier("mana", 2)>>),
     Trait(<<StatMultiplier("mana", 3), StatMultiplier("intellect", 2)>>),
     Trait(<<StatMultiplier("mana", -1)>>),
     Trait(<<RedirectFreePoints("intellect")>>)}

StoredTraits ==
    {<<Trait(<<StatMultiplier("mana", 0)>>)>>,
     <<Trait(<<StatMultiplier("mana", 0), StatMultiplier("mana", 3)>>)>>}

StoredSnapshots ==
    {[main |-> createDefaultCharacter,
      companion |-> [createDefaultCharacter EXCEPT !.traits = items]] :
        items \in StoredTraits}

EditTrait ==
    \/ \E data \in EditorTraits, editingIndex \in 0..MaxTraits :
          handleSaveTrait(data, editingIndex)
    \/ \E index \in 1..MaxTraits : handleDeleteTrait(index)

LoadSnapshot ==
    /\ \E data \in StoredSnapshots : loadSnapshot(data)
    /\ UNCHANGED server

NextTraits ==
    \/ EditTrait
    \/ LoadSnapshot
    \/ EditFreePoints
    \/ ChangeLevel

SpecTraits == Init /\ [][NextTraits]_vars

\* the product of the multiplier of every StatMultiplier effect for the stat
MultiplierProduct(items, stat) ==
    ProductOf([i \in 1..Len(items) |->
                 ProductOf([j \in 1..Len(items[i].effects) |->
                              IF /\ items[i].effects[j].type = "stat_multiplier"
                                 /\ items[i].effects[j].stat = stat
                              THEN items[i].effects[j].multiplier
                              ELSE 1])])

\* C19: getTraitMultiplier(traits, stat) is the product of the multiplier of
\* every StatMultiplier effect for that stat across all traits, whatever the
\* multipliers are, and 1 when there is no such effect; effects for other
\* stats and of other kinds do not change it.
C19_TraitMultiplierProduct ==
    \A stat \in StatSet :
       getTraitMultiplier(companion.traits, stat)
       = MultiplierProduct(companion.traits, stat)

\* the product as long as no multiplier for the stat is 0
C19_ProductOfNonZero ==
    \A stat \in StatSet :
       MultiplierProduct(companion.traits, stat) # 0
       => getTraitMultiplier(companion.traits, stat)
          = MultiplierProduct(companion.traits, stat)

(***************************************************************************)
(* SpecSelection: snapshots entered for any level, each with its own       *)
(* stats, one capture at the current level, and the level moved up and     *)
(* down past the stored levels.                                            *)
(***************************************************************************)
EnteredStats(level) == [ZeroMap EXCEPT !["mana"] = 10 * level]

EditLevelSnapshot ==
    \/ \E level \in GrowthLevels : handleSaveSnapshot(level, EnteredStats(level))
    \/ \E level \in GrowthLevels : handleDeleteSnapshot(level)

NextSelection ==
    \/ ChangeGrowthLevel
    \/ EditFreePoints
    \/ EditLevelSnapshot
    \/ TakeFirstSnapshot

SpecSelection == Init /\ [][NextSelection]_vars

\* the record without the snapshots stored above its level
WithoutLaterSnapshots(character) ==
    [character EXCEPT !.levelSnapshots =
        [level \in {key \in DOMAIN @ : key <= character.level} |-> @[level]]]

\* C20: the baseline is the snapshot with the greatest level key <= the
\* current level, and none (base 0) when no key is <= the level; snapshots
\* stored above the current level change no resolved stat, also once the level
\* has been lowered below the level of a snapshot.
C20_SnapshotSelection ==
    LET keys == DOMAIN companion.levelSnapshots
    IN  /\ \A stat \in StatSet :
              LET breakdown == calculateStatWithBreakdown(stat, companion)
                  used == breakdown.snapshotLevel
              IN  IF \E key \in keys : key <= companion.level
                  THEN /\ used \in keys
                       /\ used <= companion.level
                       /\ \A key \in keys : key <= companion.level => key <= used
                       /\ breakdown.snapshotBase
                          = companion.levelSnapshots[used].stats[stat]
                  ELSE /\ used = NULL
                       /\ breakdown.snapshotBase = 0
        /\ calculateAllStats(companion)
           = calculateAllStats(WithoutLaterSnapshots(companion))

\* a snapshot entered for level 1, one captured at level 3, and the level
\* lowered to 2 afterwards: the baseline is the snapshot of level 1
C20_Witness ==
    /\ companion.level = 2
    /\ DOMAIN companion.levelSnapshots = {1, 3}
    /\ companion.levelSnapshots[3].format = "full"
    /\ companion.levelSnapshots[3].stats["mana"] = 12
    /\ companion.freePoints["mana"] = 2
    /\ Mana.snapshotLevel = 1
    /\ Mana.snapshotBase = 10
    /\ Mana.final = 12

(***************************************************************************)
(* SpecDefaults: records loaded from stored JSON that hold nothing but a   *)
(* level, the level and free points edited on top of them, and the         *)
(* calculation of their stats.                                             *)
(***************************************************************************)
StoredLevelOnly ==
    {[main |-> createDefaultCharacter, companion |-> [level |-> level]] :
        level \in GrowthLevels}

LoadLevelOnly ==
    /\ \E data \in StoredLevelOnly : loadSnapshot(data)
    /\ UNCHANGED server

NextDefaults ==
    \/ LoadLevelOnly
    \/ ChangeGrowthLevel
    \/ EditOrderPoints
    \/ companionCalculation

SpecDefaults == Init /\ [][NextDefaults]_vars

\* the free points the record holds for a stat, 0 where it holds none
HeldPoints(character, stat) ==
    IF "freePoints" \notin DOMAIN character THEN 0
    ELSE IF stat \notin DOMAIN character.freePoints THEN 0
    ELSE character.freePoints[stat]

\* C21: calculateAllStats returns a result for a record that has only a
\* level: a missing additive entry is read as 0, a missing multiplier as 1, a
\* missing snapshot history as no snapshot, and all eight stats of such a
\* record are 0.
C21_NoRaiseDefaults ==
    /\ \A i \in 1..Len(calculations) :
          /\ DOMAIN calculations[i].stats = StatSet
          /\ \A stat \in StatSet : calculations[i].stats[stat] >= 0
    /\ \A calc \in {calculateAllStats(companion)} :
          /\ DOMAIN companion = {"level"} =>
                \A stat \in StatSet : calc.stats[stat] = 0
          /\ \A stat \in StatSet :
                /\ calc.breakdowns[stat].snapshotLevel = NULL
                /\ calc.breakdowns[stat].snapshotBase = 0
                /\ calc.breakdowns[stat].traitMultiplier = 1
                /\ calc.breakdowns[stat].titleAdditive = 0
                /\ calc.breakdowns[stat].statBoostAdditive = 0
                /\ calc.breakdowns[stat].classScaling = 0
                /\ calc.stats[stat] = HeldPoints(companion, stat)

\* the stats of a record that holds only level 3 have been calculated: all 0
C21_Witness ==
    /\ DOMAIN companion = {"level"}
    /\ companion.level = 3
    /\ Len(calculations) = 1
    /\ calculations[1].stats = ZeroMap

\* free points of mana entered on top of a loaded record: the map holds the
\* one entry, the other seven stats are read as 0
C21_WitnessOneEntry ==
    /\ DOMAIN companion = {"level", "freePoints"}
    /\ DOMAIN companion.freePoints = {"mana"}
    /\ Len(calculations) = 1
    /\ calculations[1].stats = [ZeroMap EXCEPT !["mana"] = 8]

(***************************************************************************)
(* SpecLegacy: records loaded with a snapshot in the shape stored before   *)
(* the raw title bonuses were kept, snapshots entered as direct values,    *)
(* and a title, a trait multiplier and free points edited on top.          *)
(***************************************************************************)
LegacySnapshots ==
    {LegacySnapshot([ZeroMap EXCEPT !["mana"] = 20], [ZeroMap EXCEPT !["mana"] = 5]),
     LegacySnapshot([ZeroMap EXCEPT !["mana"] = 20], ZeroMap)}

StoredLegacy ==
    {[main |-> createDefaultCharacter,
      companion |-> [createDefaultCharacter EXCEPT
                        !.titles = <<Title("undefined", <<Bonus("mana", 5, 0)>>)>>,
                        !.levelSnapshots = WithSnapshot(<<>>, 1, snapshot)]] :
        snapshot \in LegacySnapshots}

LoadLegacy ==
    /\ \E data \in StoredLegacy : loadSnapshot(data)
    /\ UNCHANGED server

EditFirstSnapshot ==
    \/ handleSaveSnapshot(1, EnteredStats(1))
    \/ handleDeleteSnapshot(1)

NextLegacy ==
    \/ LoadLegacy
    \/ EditFirstSnapshot
    \/ EditManaTitle
    \/ EditMultiplierTrait
    \/ EditFreePoints
    \/ ChangeGrowthLevel

SpecLegacy == Init /\ [][NextLegacy]_vars

\* C22: a snapshot without rawTitleBonuses and includedTraitMultipliers is
\* taken as the base, and the net title additive above it is the current
\* title additive x traitMultiplier minus its includedTitleBonuses (0 if it
\* has none); a snapshot of direct values {stat: value} is taken as the base
\* with every ledgered quantity 0.
C22_LegacyFallback ==
    \A stat \in StatSet :
       \A breakdown \in {calculateStatWithBreakdown(stat, companion)} :
          breakdown.snapshotLevel # NULL =>
             LET snapshot == companion.levelSnapshots[breakdown.snapshotLevel]
             IN  /\ breakdown.snapshotBase = snapshot.stats[stat]
                 /\ snapshot.format = "legacy" =>
                       breakdown.netTitleAdditive
                       = breakdown.titleAdditive * breakdown.traitMultiplier
                         - snapshot.includedTitleBonuses[stat]
                 /\ snapshot.format = "direct" =>
                       /\ breakdown.snapshotIncludedTitleAdditive = 0
                       /\ breakdown.snapshotIncludedTitleMultiplier = 0
                       /\ breakdown.snapshotIncludedBoostAdditive = 0
                       /\ breakdown.snapshotIncludedBoostMultiplier = 0
                       /\ breakdown.snapshotRawTitleAdditive = 0
                       /\ breakdown.netTitleAdditive
                          = breakdown.titleAdditive * breakdown.traitMultiplier
                       /\ getSnapshotIncludedDerivation(snapshot, stat) = 0

\* a loaded snapshot with includedTitleBonuses 5 for mana and no raw title
\* bonuses, the title of 5 still held and a trait x2 added since: the net
\* title additive is 5 x 2 - 5
C22_Witness ==
    /\ 1 \in DOMAIN companion.levelSnapshots
    /\ companion.levelSnapshots[1].format = "legacy"
    /\ companion.levelSnapshots[1].includedTitleBonuses["mana"] = 5
    /\ Mana.titleAdditive = 5
    /\ Mana.traitMultiplier = 2
    /\ Mana.netTitleAdditive = 5
    /\ Mana.snapshotBase = 20

\* a snapshot entered as direct values is the base, nothing is ledgered
C22_WitnessDirect ==
    /\ 1 \in DOMAIN companion.levelSnapshots
    /\ companion.levelSnapshots[1].format = "direct"
    /\ Mana.titleAdditive = 5
    /\ Mana.snapshotBase = 10
    /\ Mana.netTitleAdditive = 5

(***************************************************************************)
(* SpecFrame: the stored hp and mp, the free points behind their maxima    *)
(* and the level are edited, and the provider calculates the stats and     *)
(* the derived resources in between.                                       *)
(***************************************************************************)
NextFrame ==
    \/ EditResources
    \/ EditResourcePoints
    \/ ChangeLevel
    \/ companionCalculation
    \/ companionDerivedStatsCalculation

SpecFrame == Init /\ [][NextFrame]_vars

\* C23: calculateAllStats and calculateDerivedStats leave the Character
\* Record passed to them as it was: level, levelSnapshots, classHistory,
\* freePoints, traits, titles, statBoosts, statDerivations, hp and mp are the
\* same after the call as before it.
C23_RecordUnchanged ==
    [][Len(calculations') > Len(calculations)
         => /\ companion' = companion
            /\ main' = main]_vars

\* both functions have been called on a record with free points of
\* constitution and a stored hp above the maximum they give
C23_Witness ==
    /\ Len(calculations) = 2
    /\ "stats" \in DOMAIN calculations[1]
    /\ "hp" \in DOMAIN calculations[2]
    /\ calculations[2].hp.max = 20
    /\ calculations[2].hp.current = 20
    /\ companion.hp = Stored(60)
    /\ companion.freePoints["constitution"] = 2

(***************************************************************************)
(* Capture interleaved with edits of the same character, under Spec.       *)
(***************************************************************************)
\* the record and the result of calculateAllStats that one capture reads
CapturedFrom(snapshot, character, calc) ==
    /\ snapshot.stats = calc.stats
    /\ snapshot.rawTitleBonuses = getTitleAdditiveBonuses(character.titles)
    /\ snapshot.includedTitleMultipliers = getTitleMultiplierBonuses(character.titles)
    /\ snapshot.includedStatBoostBonuses =
           getStatBoostAdditiveBonuses(character.statBoosts)
    /\ snapshot.includedStatBoostMultipliers =
           getStatBoostMultiplierBonuses(character.statBoosts)
    /\ \A stat \in StatSet :
          /\ snapshot.includedTraitMultipliers[stat] =
                 (IF calc.breakdowns[stat].traitMultiplier # 0
                  THEN calc.breakdowns[stat].traitMultiplier ELSE 1)
          /\ snapshot.includedTitleBonuses[stat] =
                 snapshot.rawTitleBonuses[stat] * snapshot.includedTraitMultipliers[stat]
          /\ snapshot.includedDerivationBonuses[stat] =
                 calc.breakdowns[stat].derivationBonus

\* C25: the snapshot a capture writes has its stats and every ledger field
\* computed from one and the same state of the Character Record, the one the
\* capture started from, whatever edits of that character come before or
\* after the capture; the capture changes nothing else of the record.
C25_AtomicCapture ==
    [][captures' = captures + 1
         => \A calc \in {calculateAllStats(companion)} :
               /\ CapturedFrom(companion'.levelSnapshots[companion.level],
                               companion, calc)
               /\ \A name \in DOMAIN companion \ {"levelSnapshots"} :
                     companion'[name] = companion[name]
               /\ \A level \in DOMAIN companion.levelSnapshots \ {companion.level} :
                     companion'.levelSnapshots[level] = companion.levelSnapshots[level]]_vars

\* a capture at level 1 before any title, a title saved and the level raised
\* after it, and a second capture at level 2: each snapshot keeps the ledger of
\* the record it was taken from
C25_Witness ==
    /\ captures = 2
    /\ companion.level = 2
    /\ Len(companion.titles) = 1
    /\ DOMAIN companion.levelSnapshots = {1, 2}
    /\ companion.levelSnapshots[1].rawTitleBonuses["mana"] = 0
    /\ companion.levelSnapshots[2].rawTitleBonuses["mana"] = 5
    /\ companion.levelSnapshots[2].stats["mana"] =
           companion.levelSnapshots[1].stats["mana"] + 5

(***************************************************************************)
(* The server (server.js) and the requests of the client.  A request is a  *)
(* record {kind, body} or {kind, id}; a response is {request, status} with *)
(* the snapshot or the data the server sends.  A handler that awaits       *)
(* readJson and then writeJson takes two steps, and between them it is in  *)
(* reads with the list it has read.  Requests under way are taken up in    *)
(* any order.  createdAt and the messages of the answers are left out.     *)
(***************************************************************************)
MaxInFlight == 2    \* requests, and answers, under way at one time
MaxIds == 2         \* ids uuidv4 issues in one behaviour

client == <<companion, included, captures, main, hasBond, calculations>>

\* String.prototype.trim on a name held as a sequence of characters
RECURSIVE TrimStart(_)
TrimStart(name) ==
    IF name # <<>> /\ Head(name) = " " THEN TrimStart(Tail(name)) ELSE name

RECURSIVE TrimEnd(_)
TrimEnd(name) ==
    IF name # <<>> /\ name[Len(name)] = " "
    THEN TrimEnd(SubSeq(name, 1, Len(name) - 1)) ELSE name

\* a variant that takes every name as it is
TrimNothing(name) == name

Trim(name) ==
    TrimEnd(TrimStart(name))

\* !name || !name.trim()
NameMissing(body) ==
    \/ "name" \notin DOMAIN body
    \/ body.name = <<>>
    \/ Trim(body.name) = <<>>

\* snapshotsData.snapshots.find(s => s.id === id): 0 when there is none
findIndex(snapshotsData, id) ==
    IF \E i \in 1..Len(snapshotsData) : snapshotsData[i].id = id
    THEN CHOOSE i \in 1..Len(snapshotsData) :
            /\ snapshotsData[i].id = id
            /\ \A j \in 1..(i - 1) : snapshotsData[j].id # id
    ELSE 0

Ids(snapshotsData) == {snapshotsData[i].id : i \in 1..Len(snapshotsData)}

\* res.json / res.status(...).json
Answer(response) ==
    /\ Cardinality(responses) < MaxInFlight
    /\ responses' = responses \cup {response}

\* the client sends a request
Send(request) ==
    /\ Cardinality(requests) + Cardinality(reads) < MaxInFlight
    /\ request \notin requests
    /\ requests' = requests \cup {request}

(***************************************************************************)
(* Client: the save timer, saveSnapshot, loadSnapshot and the handlers of  *)
(* the snapshot tab.                                                       *)
(***************************************************************************)
\* the timer set by saveToServer fires: axios.post(`/update`, payload)
saveTimeoutFires ==
    /\ saveTimeout # <<>>
    /\ Send([kind |-> "update", body |-> saveTimeout[1]])
    /\ saveTimeout' = <<>>
    /\ UNCHANGED <<client, isDirty, responses, currentFile, snapshotsFile, reads,
                   nextId, answered>>

\* the post resolves: setIsDirty(false); the auto-save effect finds the flag
\* down and leaves a pending timer alone
autosaveDone(response) ==
    /\ response \in responses
    /\ response.request.kind = "update"
    /\ response.status = 200
    /\ isDirty' = FALSE
    /\ responses' = responses \ {response}
    /\ UNCHANGED <<client, saveTimeout, requests, currentFile, snapshotsFile, reads,
                   nextId, answered>>

\* the post is rejected: catch (err) { console.error(...) }
autosaveFailed(request) ==
    /\ request \in requests
    /\ request.kind = "update"
    /\ requests' = requests \ {request}
    /\ UNCHANGED <<client, isDirty, saveTimeout, responses, currentFile,
                   snapshotsFile, reads, nextId, answered>>

\* saveSnapshot(name): axios.post(`/save`, {name, data: {main, companion}})
saveSnapshot(name) ==
    /\ Send([kind |-> "save",
             body |-> [name |-> name, data |-> Payload(main, companion)]])
    /\ UNCHANGED <<client, isDirty, saveTimeout, responses, currentFile,
                   snapshotsFile, reads, nextId, answered>>

\* a request that names a snapshot: handleLoad, handleDelete, handleView and
\* the export link
SendFor(kind, id) ==
    /\ Send([kind |-> kind, id |-> id])
    /\ UNCHANGED <<client, isDirty, saveTimeout, responses, currentFile,
                   snapshotsFile, reads, nextId, answered>>

\* handleImport: axios.post(`/import`, data) with the JSON of the chosen file
handleImport(data) ==
    /\ Send([kind |-> "import", body |-> data])
    /\ UNCHANGED <<client, isDirty, saveTimeout, responses, currentFile,
                   snapshotsFile, reads, nextId, answered>>

\* POST /api/save without a usable name, sent past the check of handleSave
saveWithoutName(body) ==
    /\ Send([kind |-> "save", body |-> body])
    /\ UNCHANGED <<client, isDirty, saveTimeout, responses, currentFile,
                   snapshotsFile, reads, nextId, answered>>

\* the answer to a load arrives: loadSnapshot goes on after its await
loadSnapshotDone(response) ==
    /\ response \in responses
    /\ response.request.kind = "load"
    /\ response.status = 200
    /\ loadSnapshot(response.data)
    /\ responses' = responses \ {response}
    /\ UNCHANGED <<requests, currentFile, snapshotsFile, reads, nextId, answered>>

\* any other answer only raises a notification
notified(response) ==
    /\ response \in responses
    /\ ~(response.request.kind \in {"update", "load"} /\ response.status = 200)
    /\ responses' = responses \ {response}
    /\ UNCHANGED <<client, isDirty, saveTimeout, requests, currentFile,
                   snapshotsFile, reads, nextId, answered>>

(***************************************************************************)
(* Server.                                                                 *)
(***************************************************************************)
\* POST /api/update: await fs.writeJson(currentFilePath, req.body)
postUpdate(request) ==
    /\ request \in requests
    /\ request.kind = "update"
    /\ requests' = requests \ {request}
    /\ currentFile' = request.body
    /\ Cardinality(responses) < MaxInFlight
    /\ responses' = responses \cup {[request |-> request, status |-> 200]}
    /\ UNCHANGED <<client, isDirty, saveTimeout, snapshotsFile, reads, nextId,
                   answered>>

\* POST /api/save up to its readJson: 400 without a name
postSaveRead(request) ==
    /\ request \in requests
    /\ request.kind = "save"
    /\ requests' = requests \ {request}
    /\ IF NameMissing(request.body)
       THEN /\ Answer([request |-> request, status |-> 400])
            /\ UNCHANGED reads
       ELSE /\ reads' = reads \cup {[request |-> request,
                                     snapshotsData |-> snapshotsFile]}
            /\ UNCHANGED responses
    /\ UNCHANGED <<client, isDirty, saveTimeout, currentFile, snapshotsFile, nextId,
                   answered>>

\* POST /api/import up to its readJson: 400 without data
postImportRead(request) ==
    /\ request \in requests
    /\ request.kind = "import"
    /\ requests' = requests \ {request}
    /\ IF "data" \notin DOMAIN request.body
       THEN /\ Answer([request |-> request, status |-> 400])
            /\ UNCHANGED reads
       ELSE /\ reads' = reads \cup {[request |-> request,
                                     snapshotsData |-> snapshotsFile]}
            /\ UNCHANGED responses
    /\ UNCHANGED <<client, isDirty, saveTimeout, currentFile, snapshotsFile, nextId,
                   answered>>

\* a variant that stores the current state file in place of the data posted
SavedSnapshotCurrent(id, body) ==
    [id |-> id, name |-> Trim(body.name), data |-> currentFile]

\* newSnapshot of POST /api/save
SavedSnapshot(id, body) ==
    [id |-> id, name |-> Trim(body.name), data |-> body.data]

\* newSnapshot of POST /api/import: name || `Imported ...`, importedFrom: id || null
ImportedSnapshot(id, body) ==
    [id           |-> id,
     name         |-> IF Field(body, "name", <<>>) # <<>> THEN body.name
                      ELSE <<"Imported">>,
     importedFrom |-> Field(body, "id", 0),
     data         |-> body.data]

\* POST /api/save and POST /api/import from unshift on: the list read, with
\* the new snapshot in front, is written and the snapshot is sent
postWrite(handler) ==
    /\ handler \in reads
    /\ handler.request.kind \in {"save", "import"}
    /\ nextId < MaxIds
    /\ nextId' = nextId + 1
    /\ \E newSnapshot \in {IF handler.request.kind = "save"
                           THEN SavedSnapshot(nextId + 1, handler.request.body)
                           ELSE ImportedSnapshot(nextId + 1, handler.request.body)} :
          /\ snapshotsFile' = <<newSnapshot>> \o handler.snapshotsData
          /\ Answer([request |-> handler.request, status |-> 200,
                     snapshot |-> newSnapshot])
          /\ answered' = answered \cup {[request |-> handler.request,
                                          status |-> 200, snapshot |-> newSnapshot]}
    /\ reads' = reads \ {handler}
    /\ UNCHANGED <<client, isDirty, saveTimeout, requests, currentFile>>

\* GET /api/snapshot/:id and GET /api/snapshot/:id/export
getSnapshot(request) ==
    /\ request \in requests
    /\ request.kind \in {"get", "export"}
    /\ requests' = requests \ {request}
    /\ \E index \in {findIndex(snapshotsFile, request.id)} :
          IF index = 0
          THEN Answer([request |-> request, status |-> 404])
          ELSE Answer([request |-> request, status |-> 200,
                       snapshot |-> snapshotsFile[index]])
    /\ UNCHANGED <<client, isDirty, saveTimeout, currentFile, snapshotsFile, reads,
                   nextId, answered>>

\* DELETE /api/snapshot/:id and POST /api/snapshot/:id/load up to the
\* readJson: 404 when the list read has no such id
snapshotRead(request) ==
    /\ request \in requests
    /\ request.kind \in {"delete", "load"}
    /\ requests' = requests \ {request}
    /\ IF findIndex(snapshotsFile, request.id) = 0
       THEN /\ Answer([request |-> request, status |-> 404])
            /\ UNCHANGED reads
       ELSE /\ reads' = reads \cup {[request |-> request,
                                     snapshotsData |-> snapshotsFile]}
            /\ UNCHANGED responses
    /\ UNCHANGED <<client, isDirty, saveTimeout, currentFile, snapshotsFile, nextId,
                   answered>>

\* DELETE /api/snapshot/:id from splice on
deleteWrite(handler) ==
    /\ handler \in reads
    /\ handler.request.kind = "delete"
    /\ snapshotsFile' = Without(handler.snapshotsData,
                                findIndex(handler.snapshotsData, handler.request.id))
    /\ Answer([request |-> handler.request, status |-> 200])
    /\ answered' = answered \cup {[request |-> handler.request, status |-> 200]}
    /\ reads' = reads \ {handler}
    /\ UNCHANGED <<client, isDirty, saveTimeout, requests, currentFile, nextId>>

\* POST /api/snapshot/:id/load from writeJson(currentFilePath, snapshot.data) on
loadWrite(handler) ==
    /\ handler \in reads
    /\ handler.request.kind = "load"
    /\ \E snapshot \in {handler.snapshotsData[findIndex(handler.snapshotsData,
                                                        handler.request.id)]} :
          /\ currentFile' = snapshot.data
          /\ Answer([request |-> handler.request, status |-> 200,
                     data |-> snapshot.data])
    /\ reads' = reads \ {handler}
    /\ UNCHANGED <<client, isDirty, saveTimeout, requests, snapshotsFile, nextId,
                   answered>>

(***************************************************************************)
(* SpecRestore: the main character's free points are edited and saved by   *)
(* the timer; snapshots are saved, imported, loaded and deleted.  The      *)
(* calls come one after another: a request is sent when the one before it  *)
(* has been answered and the answer received.                              *)
(***************************************************************************)
NothingUnderWay == requests = {} /\ reads = {} /\ responses = {}

EditMainMana ==
    \E value \in {0, 3} : updateMainFreePoints("mana", value)

SnapshotNames == {<<"a">>, <<" ", "b", " ">>}

ImportedFiles ==
    {[id |-> 7, name |-> <<"c">>,
      data |-> Payload(createDefaultCharacter, [level |-> 2])]}

SaveNamed == \E name \in SnapshotNames : saveSnapshot(name)

LoadOrDelete == \E kind \in {"load", "delete"}, id \in 1..MaxIds : SendFor(kind, id)

ImportFile == \E data \in ImportedFiles : handleImport(data)

Receive ==
    \/ \E response \in responses : loadSnapshotDone(response)
    \/ \E response \in responses : notified(response)

ServerRead ==
    \/ \E request \in requests : postSaveRead(request)
    \/ \E request \in requests : postImportRead(request)
    \/ \E request \in requests : snapshotRead(request)

ServerWrite ==
    \/ \E handler \in reads : postWrite(handler)
    \/ \E handler \in reads : deleteWrite(handler)
    \/ \E handler \in reads : loadWrite(handler)

NextRestore ==
    \/ EditMainMana
    \/ NothingUnderWay /\ SaveNamed
    \/ NothingUnderWay /\ LoadOrDelete
    \/ NothingUnderWay /\ ImportFile
    \/ NothingUnderWay /\ saveTimeoutFires
    \/ \E request \in requests : postUpdate(request)
    \/ \E response \in responses : autosaveDone(response)
    \/ Receive
    \/ ServerRead
    \/ ServerWrite

SpecRestore == Init /\ [][NextRestore]_vars

\* the answers of POST /api/save that returned a snapshot with this id
SavedAs(id) ==
    {answer \in answered : /\ answer.status = 200
                           /\ answer.request.kind = "save"
                           /\ answer.snapshot.id = id}

DeletedAs(id) ==
    {answer \in answered : /\ answer.status = 200
                           /\ answer.request.kind = "delete"
                           /\ answer.request.id = id}

\* C26: once POST /api/save with data D has returned a snapshot with id i,
\* and whatever updates, saves, imports, loads and deletions of other ids
\* the server has handled since, a load of i is not answered 404, writes
\* exactly D to the current state file and returns D.
C26_NamedRestore ==
    [][/\ \A request \in requests \ requests' :
             (/\ request.kind = "load"
              /\ SavedAs(request.id) # {}
              /\ DeletedAs(request.id) = {})
             => \E handler \in reads' : handler.request = request
       /\ \A handler \in reads \ reads' :
             (/\ handler.request.kind = "load"
              /\ DeletedAs(handler.request.id) = {})
             => \A saved \in SavedAs(handler.request.id) :
                   /\ currentFile' = saved.request.body.data
                   /\ [request |-> handler.request, status |-> 200,
                       data |-> saved.request.body.data] \in responses']_vars

\* snapshot 1 was saved, the free points were edited and written by the
\* timer, snapshot 2 was saved with the edited record and deleted, and the
\* load of 1 has put the record saved first back into the current state file
C26_Witness ==
    /\ \E first \in SavedAs(1), second \in SavedAs(2) :
          /\ first.request.body.data # second.request.body.data
          /\ currentFile = first.request.body.data
          /\ [request |-> [kind |-> "load", id |-> 1], status |-> 200,
              data |-> first.request.body.data] \in responses
    /\ DeletedAs(2) # {}
    /\ Ids(snapshotsFile) = {1}

(***************************************************************************)
(* SpecConcurrent: saves, imports and deletions whose readJson and         *)
(* writeJson steps interleave.                                             *)
(***************************************************************************)
DeleteSnapshot == \E id \in 1..MaxIds : SendFor("delete", id)

NextConcurrent ==
    \/ SaveNamed
    \/ ImportFile
    \/ DeleteSnapshot
    \/ \E request \in requests : postSaveRead(request)
    \/ \E request \in requests : postImportRead(request)
    \/ \E request \in requests : snapshotRead(request)
    \/ \E handler \in reads : postWrite(handler)
    \/ \E handler \in reads : deleteWrite(handler)
    \/ \E response \in responses : notified(response)

SpecConcurrent == Init /\ [][NextConcurrent]_vars

\* C27: every save or import answered 200 is in snapshots.json unless a
\* deletion of its id was answered 200, and no id whose deletion was
\* answered 200 is in snapshots.json, whatever the order of the read and
\* write steps of the handlers.
C27_NoLostSnapshot ==
    \A answer \in answered :
       /\ answer.request.kind \in {"save", "import"}
             => \/ answer.snapshot.id \in Ids(snapshotsFile)
                \/ DeletedAs(answer.snapshot.id) # {}
       /\ answer.request.kind = "delete"
             => answer.request.id \notin Ids(snapshotsFile)

(***************************************************************************)
(* SpecAutosave: edits of both records, the save timer, POST /api/update   *)
(* and its answer, which may also fail.                                    *)
(***************************************************************************)
NextAutosave ==
    \/ EditMainMana
    \/ EditFreePoints
    \/ saveTimeoutFires
    \/ \E request \in requests : postUpdate(request)
    \/ \E response \in responses : autosaveDone(response)
    \/ \E request \in requests : autosaveFailed(request)

SpecAutosave == Init /\ [][NextAutosave]_vars

\* C29: whenever isDirty is false, the state last written to the server is
\* the client's main / companion state, an edit made while a POST
\* /api/update is under way included.
C29_DirtyFlagAccurate ==
    isDirty = FALSE => currentFile = Payload(main, companion)

(***************************************************************************)
(* SpecPersist: edits of the main character, a snapshot saved and loaded,  *)
(* the save timer and POST /api/update; every request is answered, and     *)
(* whatever the timer, the server or an answer under way can do is done in *)
(* the end.                                                                *)
(***************************************************************************)
SaveFirst == nextId = 0 /\ requests = {} /\ reads = {} /\ saveSnapshot(<<"a">>)

LoadFirst == SendFor("load", 1)

UserStep ==
    \/ EditMainMana
    \/ SaveFirst
    \/ LoadFirst

SystemStep ==
    \/ saveTimeoutFires
    \/ \E request \in requests : postUpdate(request)
    \/ \E response \in responses : autosaveDone(response)
    \/ \E request \in requests : postSaveRead(request)
    \/ \E handler \in reads : postWrite(handler)
    \/ \E request \in requests : snapshotRead(request)
    \/ \E handler \in reads : loadWrite(handler)
    \/ \E response \in responses : loadSnapshotDone(response)
    \/ \E response \in responses : notified(response)

NextPersist == UserStep \/ SystemStep

SpecPersist == Init /\ [][NextPersist]_vars /\ WF_vars(SystemStep)

\* C28: once the edits and loads of the user have stopped, the current state
\* file of the server comes to hold the client's main / companion state and
\* keeps holding it.
C28_EventuallyPersisted ==
    \/ []<><<UserStep>>_vars
    \/ <>[](currentFile = Payload(main, companion))

(***************************************************************************)
(* SpecRejected: requests the server accepts and requests it rejects, one  *)
(* after another.                                                          *)
(***************************************************************************)
NamelessBodies ==
    {[data |-> Payload(createDefaultCharacter, createDefaultCharacter)],
     [name |-> <<>>, data |-> Payload(createDefaultCharacter, createDefaultCharacter)],
     [name |-> <<" ", " ">>,
      data |-> Payload(createDefaultCharacter, createDefaultCharacter)]}

FilesWithoutData == {[id |-> 7, name |-> <<"c">>]}

SaveNameless == \E body \in NamelessBodies : saveWithoutName(body)

ImportAny == \E data \in ImportedFiles \cup FilesWithoutData : handleImport(data)

RequestSnapshot ==
    \E kind \in {"get", "export", "delete", "load"}, id \in 1..MaxIds :
       SendFor(kind, id)

NextRejected ==
    \/ EditMainMana
    \/ NothingUnderWay /\ SaveNamed
    \/ NothingUnderWay /\ SaveNameless
    \/ NothingUnderWay /\ ImportAny
    \/ NothingUnderWay /\ RequestSnapshot
    \/ \E request \in requests : postSaveRead(request)
    \/ \E request \in requests : postImportRead(request)
    \/ \E request \in requests : getSnapshot(request)
    \/ \E request \in requests : snapshotRead(request)
    \/ \E handler \in reads : postWrite(handler)
    \/ \E handler \in reads : deleteWrite(handler)
    \/ \E handler \in reads : loadWrite(handler)
    \/ \E response \in responses : loadSnapshotDone(response)
    \/ \E response \in responses : notified(response)

SpecRejected == Init /\ [][NextRejected]_vars

\* the status the server owes a request it must reject, 0 for any other
Rejection(request) ==
    CASE request.kind = "save" ->
            IF \/ "name" \notin DOMAIN request.body
               \/ \A i \in 1..Len(request.body.name) : request.body.name[i] = " "
            THEN 400 ELSE 0
      [] request.kind = "import" ->
            IF "data" \notin DOMAIN request.body THEN 400 ELSE 0
      [] request.kind \in {"get", "export", "delete", "load"} ->
            IF request.id \notin Ids(snapshotsFile) THEN 404 ELSE 0
      [] OTHER -> 0

\* C30: a POST /api/save whose name is missing, empty or only whitespace and
\* a POST /api/import without data are answered 400, a GET, DELETE, load or
\* export of an id that is not in the list is answered 404, and the step
\* that answers leaves the current state file and the snapshot list as they
\* were and no handler behind that could write later.
C30_RejectedChangeNothing ==
    [][\A request \in requests \ requests' :
          Rejection(request) # 0
          => /\ [request |-> request, status |-> Rejection(request)] \in responses'
             /\ currentFile' = currentFile
             /\ snapshotsFile' = snapshotsFile
             /\ reads' = reads]_vars

\* a save with a name of two spaces was answered 400 while the list holds
\* the snapshot saved before it
C30_Witness ==
    /\ \E response \in responses :
          /\ response.status = 400
          /\ response.request.kind = "save"
          /\ "name" \in DOMAIN response.request.body
          /\ response.request.body.name = <<" ", " ">>
    /\ Len(snapshotsFile) = 1
    /\ reads = {}

\* the deletion of an id that is not in the list was answered 404
C30_WitnessUnknownId ==
    /\ [request |-> [kind |-> "delete", id |-> 2], status |-> 404] \in responses
    /\ Ids(snapshotsFile) = {1}

\* an import without data was answered 400
C30_WitnessImport ==
    /\ \E response \in responses :
          /\ response.status = 400
          /\ response.request.kind = "import"
    /\ Len(snapshotsFile) = 1

====
